---------------------------- MODULE Spec2Model ----------------------------
(***************************************************************************)
(* A model of the CPP-RayTracer-IOW path tracer: vec3 arithmetic, ray,     *)
(* sphere::hit, hittable_list::hit, the three materials and ray_color.     *)
(*                                                                         *)
(* Numbers.  The program computes in IEEE doubles.  The calls examined one *)
(* by one (SpecHit, SpecMat, Spec) are computed in exact rationals         *)
(* [n |-> numerator, d |-> denominator], reduced, d > 0, with              *)
(* [n |-> 1, d |-> 0] standing for the constant `infinity`.  sqrt is exact *)
(* on squares of rationals; every input set there is chosen so that each   *)
(* sqrt the code takes is of such a square (InDomain predicates say so),   *)
(* hence the model and the doubles agree on every comparison made.  main's *)
(* render loop (SpecRender) and the comparison of the recursion with the   *)
(* loop (SpecLoop) are computed in doubles, bit for bit, with rand() and   *)
(* pow as the C library computes them.  NaN is kept out: no ray has a zero *)
(* direction, no sphere a zero radius.  Whether ray_color comes to an end  *)
(* is examined on its control flow alone (SpecTerm), the answers of        *)
(* world.hit and scatter being inputs.                                     *)
(***************************************************************************)
EXTENDS Integers, Sequences, FiniteSets, TLC

VARIABLES
    objects,    \* hittable_list::objects, the children in insertion order
    materials,  \* the materials made so far; a mat_ptr is an index into them
    call,       \* the last call made: its name, its arguments, the value it
                \* returned (ret) and its out-parameters as it left them
    stack,      \* the ray_color invocations in progress, the innermost last
    pc,         \* "idle", "call" (the innermost invocation is about to run),
                \* "sample" (it is in the loop of random_in_unit_sphere) or
                \* "return" (an invocation has just returned retval)
    retval,     \* the colour the invocation that returned last has returned
    queries,    \* how many world.hit and scatter calls ray_color has made
    chain,      \* the depth the caller passed, how many ray_color
                \* invocations it has led to so far, and whether a
                \* candidate of random_in_unit_sphere has been rejected
    rng,        \* the hidden state of rand(): its last 31 words
    scene,      \* where random_scene stands: its loop variables a and b
    cout,       \* the lines main has written to std::cout
    render,     \* where main's render loop stands: j, i, s and pixel_color
    trace,      \* the samples taken and the pixels written, in order
    recur,      \* a ray_color evaluation in doubles, bounce by bounce
    iter        \* the explicit loop over the same bounces

renderVars == <<scene, cout, render, trace>>
loopVars == <<recur, iter>>
laterVars == <<rng, renderVars, loopVars>>
rcVars == <<stack, pc, retval, queries, chain>>
vars == <<objects, materials, call, rcVars, laterVars>>



---------------------------------------------------------------------------
(* Exact rational arithmetic standing for double.                          *)

Abs(x) == IF x < 0 THEN -x ELSE x

RECURSIVE GCD(_, _)
GCD(a, b) == IF b = 0 THEN a ELSE GCD(b, a % b)

\* the rational n/d in lowest terms; d = 0 is +infinity
Q(n, d) ==
    IF d = 0 THEN [n |-> 1, d |-> 0]
    ELSE IF d = 1 THEN [n |-> n, d |-> 1]
    ELSE LET g == GCD(Abs(n), Abs(d))
             s == IF d < 0 THEN -1 ELSE 1
         IN  [n |-> s * (n \div g), d |-> s * (d \div g)]

I(k) == [n |-> k, d |-> 1]
Zero == I(0)
One == I(1)
Two == I(2)

\* sums go over the least common denominator, which keeps the integers small
QAdd(x, y) ==
    IF x.d = 0 \/ y.d = 0 THEN Q(x.n * y.d + y.n * x.d, x.d * y.d)
    ELSE LET g == GCD(x.d, y.d)
         IN  Q(x.n * (y.d \div g) + y.n * (x.d \div g), (x.d \div g) * y.d)
QSub(x, y) == QAdd(x, [n |-> -y.n, d |-> y.d])
QMul(x, y) == Q(x.n * y.n, x.d * y.d)
QDiv(x, y) == Q(x.n * y.d, x.d * y.n)
QNeg(x) == [n |-> -x.n, d |-> x.d]
QLt(x, y) == x.n * y.d < y.n * x.d
QLe(x, y) == x.n * y.d <= y.n * x.d
QGt(x, y) == QLt(y, x)
QAbs(x) == [n |-> Abs(x.n), d |-> x.d]
QMin(x, y) == IF QLt(y, x) THEN y ELSE x

\* integer square root: the largest s with s*s <= k
RECURSIVE ISqrtFrom(_, _)
ISqrtFrom(k, s) == IF (s + 1) * (s + 1) > k THEN s ELSE ISqrtFrom(k, s + 1)
ISqrt(k) == ISqrtFrom(k, 0)
IsSquare(k) == k >= 0 /\ ISqrt(k) * ISqrt(k) = k

\* x is the square of a rational: sqrt(x) is computed without rounding
HasSqrt(x) == IsSquare(x.n) /\ IsSquare(x.d)
QSqrt(x) == Q(ISqrt(x.n), ISqrt(x.d))
---------------------------------------------------------------------------
(* double as the machine has it: IEEE 754 binary64, every operation        *)
(* rounded to nearest, ties to even.  A double that is not zero is         *)
(* (-1)^s * m * 2^e with 2^52 <= m < 2^53; m is kept as five limbs of 13   *)
(* bits, the lowest first, so that no intermediate value leaves 32 bits.   *)
(* The numbers of the render loop are far from overflow and underflow:     *)
(* there is no subnormal number and no NaN here, and infinity occurs only  *)
(* as the bound t_max that ray_color passes to world.hit.                  *)

\* the value of f, a function of one argument: Let([x \in {a} |-> e]) is e
\* for x the value a, which is worked out once
Let(f) == f[CHOOSE x \in DOMAIN f : TRUE]

Limb == 2^13
DZero == [s |-> 0, m |-> <<0, 0, 0, 0, 0>>, e |-> 0]
IsZero(x) == x.m[5] = 0

\* limb i of the natural number x, 0 beyond its length
LimbAt(x, i) == IF i \in 1..Len(x) THEN x[i] ELSE 0

\* the number of bits of the natural number x (0 for zero)
BitLen(x) ==
    LET top == {i \in 1..Len(x) : x[i] # 0}
    IN  IF top = {} THEN 0
        ELSE LET t == CHOOSE i \in top : \A k \in top : k <= i
                 b == CHOOSE c \in 1..13 : 2^(c - 1) <= x[t] /\ x[t] < 2^c
             IN  13 * (t - 1) + b

\* the 13 bits of x from bit p on, the lowest bit of x being bit 0 and the
\* bits below it zero
BitsFrom(x, p) ==
    (LimbAt(x, (p \div 13) + 1) \div 2^(p % 13))
    + (LimbAt(x, (p \div 13) + 2) % 2^(p % 13)) * 2^(13 - (p % 13))

\* x + 1 on five limbs; the carry out of the fourth limb stays in the fifth
RECURSIVE PlusOne(_, _)
PlusOne(x, i) ==
    IF i = 5 THEN [x EXCEPT ![5] = @ + 1]
    ELSE IF x[i] + 1 < Limb THEN [x EXCEPT ![i] = @ + 1]
    ELSE PlusOne([x EXCEPT ![i] = 0], i + 1)

\* the double of sign s nearest to x * 2^e (to more than that, if sticky:
\* bits lost below x), ties to even; x is not zero.  Of the bits of x the k
\* lowest are dropped; x with fewer than 53 bits is exact and moved up
RoundNearestEven(x, e, sticky, s) ==
    LET \* some bit of x below bit p is set
        AnyBelow(p) ==
            \/ \E i \in 1..(p \div 13) : LimbAt(x, i) # 0
            \/ LimbAt(x, (p \div 13) + 1) % 2^(p % 13) # 0
        RoundedAt(k) ==
            LET kept == <<BitsFrom(x, k), BitsFrom(x, k + 13), BitsFrom(x, k + 26),
                          BitsFrom(x, k + 39), 1>>
                up == /\ k >= 1
                      /\ BitsFrom(x, k - 1) % 2 = 1
                      /\ (sticky \/ AnyBelow(k - 1) \/ kept[1] % 2 = 1)
            IN  IF ~up THEN [s |-> s, m |-> kept, e |-> e + k]
                ELSE Let([m \in {PlusOne(kept, 1)} |->
                        IF m[5] = 2
                        THEN [s |-> s, m |-> <<0, 0, 0, 0, 1>>, e |-> e + k + 1]
                        ELSE [s |-> s, m |-> m, e |-> e + k]])
    IN  Let([k \in {BitLen(x) - 53} |-> RoundedAt(k)])

\* the limbs of a number given by overfull limbs, carries taken along
RECURSIVE Carried(_, _, _)
Carried(cols, i, c) ==
    IF i > Len(cols) THEN (IF c = 0 THEN <<>> ELSE <<c>>)
    ELSE <<(cols[i] + c) % Limb>> \o Carried(cols, i + 1, (cols[i] + c) \div Limb)

\* the same with borrows; what is left over stays in the last limb, which
\* is negative for a negative number
RECURSIVE Borrowed(_, _, _)
Borrowed(cols, i, c) ==
    IF i = Len(cols) THEN <<cols[i] + c>>
    ELSE <<(cols[i] + c) % Limb>> \o Borrowed(cols, i + 1, (cols[i] + c) \div Limb)

\* unary operator- of a double
DNeg(x) == [x EXCEPT !.s = 1 - @]
\* fabs, std::abs
DAbs(x) == [x EXCEPT !.s = 0]

\* the product of two numbers of five limbs, in columns: column k holds the
\* products x[i] * y[j] with i + j = k + 1
Columns(x, y) ==
    << x[1] * y[1],
       x[1] * y[2] + x[2] * y[1],
       x[1] * y[3] + x[2] * y[2] + x[3] * y[1],
       x[1] * y[4] + x[2] * y[3] + x[3] * y[2] + x[4] * y[1],
       x[1] * y[5] + x[2] * y[4] + x[3] * y[3] + x[4] * y[2] + x[5] * y[1],
       x[2] * y[5] + x[3] * y[4] + x[4] * y[3] + x[5] * y[2],
       x[3] * y[5] + x[4] * y[4] + x[5] * y[3],
       x[4] * y[5] + x[5] * y[4],
       x[5] * y[5] >>

\* operator* of two doubles: the product of the significands, rounded
DMul(a, b) ==
    Let([x \in {a}, y \in {b} |->
        IF IsZero(x) \/ IsZero(y) THEN [DZero EXCEPT !.s = (x.s + y.s) % 2]
        ELSE Let([p \in {Carried(Columns(x.m, y.m), 1, 0)} |->
                RoundNearestEven(p, x.e + y.e, FALSE, (x.s + y.s) % 2)])])

\* |x| < |y|
MagLt(x, y) ==
    IF IsZero(y) THEN FALSE
    ELSE IF IsZero(x) THEN TRUE
    ELSE \/ x.e < y.e
         \/ /\ x.e = y.e
            /\ \E i \in 1..5 : x.m[i] < y.m[i] /\ \A j \in (i + 1)..5 : x.m[j] = y.m[j]

\* operator< and operator== of two doubles; -0.0 equals 0.0
DLt(a, b) ==
    Let([x \in {a}, y \in {b} |->
        IF x.s # y.s THEN x.s = 1 /\ ~(IsZero(x) /\ IsZero(y))
        ELSE IF x.s = 0 THEN MagLt(x, y) ELSE MagLt(y, x)])
DEq(a, b) == Let([x \in {a}, y \in {b} |-> (IsZero(x) /\ IsZero(y)) \/ x = y])
DGt(x, y) == DLt(y, x)

\* the sum of a and b, a the one nearer to zero and neither zero: the
\* significand of b is moved up to the exponent of a, and the exact sum is
\* rounded
SumOf(a, b) ==
    IF b.e - a.e >= 55 THEN b
    ELSE Let([d \in {b.e - a.e}, sg \in {IF a.s = b.s THEN 1 ELSE -1} |->
         Let([sum \in {Carried(<< BitsFrom(b.m, 0 - d) + sg * a.m[1],
                        BitsFrom(b.m, 13 - d) + sg * a.m[2],
                        BitsFrom(b.m, 26 - d) + sg * a.m[3],
                        BitsFrom(b.m, 39 - d) + sg * a.m[4],
                        BitsFrom(b.m, 52 - d) + sg * a.m[5],
                        BitsFrom(b.m, 65 - d),
                        BitsFrom(b.m, 78 - d),
                        BitsFrom(b.m, 91 - d),
                        BitsFrom(b.m, 104 - d) >>, 1, 0)} |->
             IF BitLen(sum) = 0 THEN DZero
             ELSE RoundNearestEven(sum, a.e, FALSE, b.s)])])

\* operator+ of two doubles
DAdd(a, b) ==
    Let([x \in {a}, y \in {b} |->
        IF IsZero(x)
        THEN (IF IsZero(y) THEN [DZero EXCEPT !.s = x.s * y.s] ELSE y)
        ELSE IF IsZero(y) THEN x
        ELSE IF MagLt(x, y) THEN SumOf(x, y) ELSE SumOf(y, x)])

\* operator- of two doubles
DSub(x, y) == DAdd(x, DNeg(y))

\* r * 2^13 - d * y on six limbs, for r and y of five limbs
DivRest(r, y, d) ==
    Borrowed(<< 0 - d * y[1], r[1] - d * y[2], r[2] - d * y[3], r[3] - d * y[4],
                r[4] - d * y[5], r[5] >>, 1, 0)

\* x - y for x of six limbs and y of five
Minus(x, y) ==
    Borrowed(<< x[1] - y[1], x[2] - y[2], x[3] - y[3], x[4] - y[4], x[5] - y[5],
                x[6] >>, 1, 0)

\* the digit d with 0 <= r * 2^13 - d * y < y and what it leaves, looked for
\* from the estimate d on
RECURSIVE DivDigit(_, _, _)
DivDigit(r, y, d) ==
    Let([rest \in {DivRest(r, y, d)} |->
        IF rest[6] < 0 THEN DivDigit(r, y, d - 1)
        ELSE IF Minus(rest, y)[6] >= 0 THEN DivDigit(r, y, d + 1)
        ELSE [d |-> d, r |-> SubSeq(rest, 1, 5)]])

\* long division in digits of 13 bits: r < y is what is left of the dividend,
\* q the digits of the quotient so far, the lowest first, n the number of
\* digits still to come; a digit is estimated by the quotient of the leading
\* bits
RECURSIVE DivDigits(_, _, _, _)
DivDigits(r, y, q, n) ==
    IF n = 0 THEN [q |-> q, r |-> r]
    ELSE Let([dg \in {DivDigit(r, y, (r[5] * Limb * Limb + r[4] * Limb + r[3])
                            \div (y[5] * Limb + y[4]))} |->
             DivDigits(dg.r, y, <<dg.d>> \o q, n - 1)])

\* operator/ of two doubles, the divisor not zero: the first bit and 65 more
\* bits of the quotient of the significands, rounded
DDiv(a, b) ==
    Let([x \in {a}, y \in {b} |->
        IF IsZero(x) THEN [DZero EXCEPT !.s = (x.s + y.s) % 2]
        ELSE Let([first \in {Minus(x.m \o <<0>>, y.m)} |->
             Let([res \in {IF first[6] < 0
                 THEN DivDigits(x.m, y.m, <<0>>, 5)
                 ELSE DivDigits(SubSeq(first, 1, 5), y.m, <<1>>, 5)} |->
                 RoundNearestEven(res.q, x.e - y.e - 65,
                                  res.r # <<0, 0, 0, 0, 0>>, (x.s + y.s) % 2)])])])

\* the largest c with c * c <= n, for 2^24 <= n < 2^26: three steps of
\* Newton's iteration from 6144 come within one of it
FirstRoot(n) ==
    LET Newton(g) == (g + (n \div g)) \div 2
        g == Newton(Newton(Newton(6144)))
    IN  CHOOSE c \in (g - 1)..(g + 1) : c * c <= n /\ n < (c + 1) * (c + 1)

\* r * 2^26 + lo - (2 * p * 2^13 + d) * d on as many limbs as r has and two
\* more, for the root p so far, what is left r, the next 26 bits lo and the
\* next digit d
SqrtRest(r, p, lo, d) ==
    Borrowed([i \in 1..(Len(r) + 2) |->
                 (IF i = 1 THEN (lo % Limb) - d * d
                  ELSE IF i = 2 THEN lo \div Limb
                  ELSE r[i - 2])
                 - (IF i >= 2 THEN 2 * d * LimbAt(p, i - 1) ELSE 0)], 1, 0)

\* the largest digit d that leaves no less than zero and what it leaves,
\* looked for from the estimate d on
RECURSIVE SqrtDigit(_, _, _, _)
SqrtDigit(r, p, lo, d) ==
    IF d >= Limb THEN SqrtDigit(r, p, lo, Limb - 1)
    ELSE Let([rest \in {SqrtRest(r, p, lo, d)} |->
        IF rest[Len(r) + 2] < 0 THEN SqrtDigit(r, p, lo, d - 1)
        ELSE IF d < Limb - 1 /\ SqrtRest(r, p, lo, d + 1)[Len(r) + 2] >= 0
             THEN SqrtDigit(r, p, lo, d + 1)
        ELSE [d |-> d, r |-> SubSeq(rest, 1, Len(p) + 2)]])

\* the square root in digits of 13 bits: p is the root of the bits of x read
\* so far, the lowest digit first, r what is left of them (as many limbs as
\* p has and one more), and the next 26 bits of x are limbs 2i-1 and 2i; a
\* digit is estimated by the quotient of the leading bits
RECURSIVE SqrtDigits(_, _, _, _)
SqrtDigits(r, p, x, i) ==
    IF i = 0 THEN [p |-> p, r |-> r]
    ELSE Let([dg \in {SqrtDigit(r, p, x[2 * i - 1] + Limb * x[2 * i],
                       ((r[Len(r)] * Limb + r[Len(r) - 1]) * Limb)
                       \div (2 * p[Len(p)]))} |->
             SqrtDigits(dg.r, <<dg.d>> \o p, x, i - 1)])

\* the significand of x moved up by 76 bits, and by one more when the
\* exponent is odd, on ten limbs
Radicand(x) ==
    << 0, 0, 0, 0, 0,
       BitsFrom(x.m, -11 - (x.e % 2)), BitsFrom(x.m, 2 - (x.e % 2)),
       BitsFrom(x.m, 15 - (x.e % 2)), BitsFrom(x.m, 28 - (x.e % 2)),
       BitsFrom(x.m, 41 - (x.e % 2)) >>

\* sqrt of a double that is not negative: the root of the radicand to 65
\* bits, rounded
DSqrt(a) ==
    Let([x \in {a} |->
        IF IsZero(x) THEN x
        ELSE Let([n \in {Radicand(x)} |->
             Let([first \in {FirstRoot(n[9] + Limb * n[10])} |->
             Let([res \in {SqrtDigits(<<(n[9] + Limb * n[10]) - first * first, 0>>,
                            <<first>>, n, 4)} |->
                 RoundNearestEven(res.p, (x.e - (x.e % 2) - 76) \div 2,
                                  \E k \in 1..Len(res.r) : res.r[k] # 0, 0)])])])])

\* the quotient and remainder of x by the small number d, from limb i down,
\* r being the remainder so far
RECURSIVE DivSmall(_, _, _, _)
DivSmall(x, d, i, r) ==
    IF i = 0 THEN [q |-> <<>>, r |-> r]
    ELSE Let([low \in {DivSmall(x, d, i - 1, (r * Limb + x[i]) % d)} |->
             [q |-> Append(low.q, (r * Limb + x[i]) \div d), r |-> low.r]])

\* the double a literal of value n / d stands for: the nearest one
D(n, d) ==
    IF n = 0 THEN DZero
    ELSE Let([res \in {DivSmall(<<0, 0, 0, 0, 0, 0, IF n < 0 THEN 0 - n ELSE n>>, d, 7, 0)}
             |->
                RoundNearestEven(res.q, -78, res.r # 0, IF n < 0 THEN 1 ELSE 0)])

\* the conversion of an int to double
DFromInt(k) ==
    IF k = 0 THEN DZero
    ELSE Let([a \in {IF k < 0 THEN 0 - k ELSE k} |->
             RoundNearestEven(<<a % Limb, (a \div Limb) % Limb, a \div (Limb * Limb)>>,
                              0, FALSE, IF k < 0 THEN 1 ELSE 0)])

\* static_cast<int> of a double below 2^31 in size: the bits above the
\* binary point
DToInt(a) ==
    Let([x \in {a} |->
        IF IsZero(x) \/ x.e < -52 THEN 0
        ELSE CASE x.e <= 0 ->
                (1 - 2 * x.s) * (BitsFrom(x.m, 0 - x.e) + BitsFrom(x.m, 13 - x.e) * Limb
                                 + BitsFrom(x.m, 26 - x.e) * Limb * Limb)])

DOne == D(1, 1)
DTwo == D(2, 1)
DHalf == D(1, 2)

\* fma of the machine, which the C library's pow is built of: a * b + c
\* rounded once.  The product is exact on nine limbs; c is lined up with
\* it, the two are added or subtracted exactly, and the result is rounded.
\* A c that lies wholly below the last bit of the product only tips the
\* rounding, and a product below a quarter of the last bit of c is lost
DFma(a, b, c) ==
    Let([x \in {a}, y \in {b}, z \in {c} |->
        IF IsZero(x) \/ IsZero(y) THEN DAdd(DMul(x, y), z)
        ELSE IF IsZero(z) THEN DMul(x, y)
        ELSE
        Let([p \in {Carried(Columns(x.m, y.m), 1, 0)}, pe \in {x.e + y.e}, ps \in {(x.s + y.s) % 2}
             |->
        Let([d \in {z.e - pe} |->
            IF d >= 110 THEN z
            ELSE IF d <= -53
            THEN (IF z.s = ps THEN RoundNearestEven(p, pe, TRUE, ps)
                  ELSE RoundNearestEven(Borrowed([i \in 1..Len(p) |->
                                                     p[i] - (IF i = 1 THEN 1 ELSE 0)], 1, 0),
                                        pe, TRUE, ps))
            ELSE
            Let([up \in {IF d < 0 THEN 0 - d ELSE 0}, uz \in {IF d > 0 THEN d ELSE 0},
                 e0 \in {IF d < 0 THEN z.e ELSE pe} |->
            Let([P \in {[i \in 1..14 |-> BitsFrom(p, 13 * (i - 1) - up)]},
                 Z \in {[i \in 1..14 |-> BitsFrom(z.m, 13 * (i - 1) - uz)]} |->
                IF z.s = ps
                THEN RoundNearestEven(Carried([i \in 1..14 |-> P[i] + Z[i]], 1, 0),
                                      e0, FALSE, ps)
                ELSE Let([pz \in {Borrowed([i \in 1..14 |-> P[i] - Z[i]], 1, 0)} |->
                     IF pz[14] < 0
                     THEN RoundNearestEven(
                              Borrowed([i \in 1..14 |-> Z[i] - P[i]], 1, 0),
                              e0, FALSE, z.s)
                     ELSE IF BitLen(pz) = 0 THEN DZero
                     ELSE RoundNearestEven(pz, e0, FALSE, ps)])])])])])])

\* the double that four numbers of a table stand for, from place i on: the
\* sign s, the upper and the lower 26 bits of the fraction and the exponent
\* e, for (-1)^s * (2^52 + fraction) * 2^(e - 52); exponent -1023 is zero
Dbl(t, i) ==
    IF t[i + 3] = -1023 THEN DZero
    ELSE [s |-> t[i], m |-> <<t[i + 2] % Limb, t[i + 2] \div Limb,
                             t[i + 1] % Limb, t[i + 1] \div Limb, 1>>,
          e |-> t[i + 3] - 52]

\* pow of the C library (glibc 2.36, the variant for processors with fused
\* multiply-add), which dielectric::reflectance calls.  The constants of
\* its logarithm: Ln2hi, Ln2lo and the polynomial A[0..6]; -1.0; and of its
\* exponential: N/ln2 for N = 128, Shift = 0x1.8p52, -ln2/N in two parts and
\* the polynomial C2..C5
PowConstants ==
    [Ln2hi |-> Dbl(<<0, 25923775, 49952768, -1>>, 1),
     Ln2lo |-> Dbl(<<0, 62707172, 63399728, -45>>, 1),
     A0 |-> Dbl(<<1, 0, 0, -1>>, 1), A1 |-> Dbl(<<1, 22369621, 22369632, -1>>, 1),
     A2 |-> Dbl(<<0, 0, 6, -1>>, 1), A3 |-> Dbl(<<0, 40265318, 22631758, -1>>, 1),
     A4 |-> Dbl(<<1, 22369621, 19506298, -1>>, 1), A5 |-> Dbl(<<1, 9590502, 55068137, 0>>, 1),
     A6 |-> Dbl(<<0, 2786, 52838339, 0>>, 1), mone |-> DNeg(DOne),
     InvLn2N |-> Dbl(<<0, 29708761, 19628798, 7>>, 1), Shift |-> Dbl(<<0, 33554432, 0, 52>>, 1),
     NegLn2hiN |-> Dbl(<<1, 25923775, 49938432, -8>>, 1),
     NegLn2loN |-> Dbl(<<1, 54388399, 10369850, -47>>, 1),
     C2 |-> Dbl(<<0, 67108863, 67108285, -2>>, 1), C3 |-> Dbl(<<0, 22369621, 22369340, -3>>, 1),
     C4 |-> Dbl(<<0, 22369651, 51850129, -5>>, 1), C5 |-> Dbl(<<0, 4473945, 61132823, -7>>, 1)]

\* for each of the 128 intervals of z: invc, near 1/c for the centre c of
\* the interval, logc, near log(c), and logctail, log(c) - logc
PowLogTable ==
    << <<0, 27787264, 0, 0,
         1, 25895100, 45729792, -2, 0, 44894474, 3626624, -48>>,
       <<0, 27262976, 0, 0,
         1, 24407919, 56100864, -2, 1, 53035574, 14743328, -46>>,
       <<0, 26738688, 0, 0,
         1, 22912453, 54876160, -2, 1, 14199093, 28725357, -45>>,
       <<0, 26214400, 0, 0,
         1, 21408609, 53344256, -2, 1, 27343143, 45115349, -49>>,
       <<0, 25690112, 0, 0,
         1, 19896293, 24606720, -2, 1, 17226340, 53034720, -47>>,
       <<0, 25165824, 0, 0,
         1, 18375408, 35414016, -2, 0, 16124882, 5014732, -46>>,
       <<0, 24641536, 0, 0,
         1, 16845857, 42379264, -2, 0, 51428603, 25299770, -50>>,
       <<0, 24117248, 0, 0,
         1, 15307541, 23676928, -2, 0, 2912673, 38900832, -45>>,
       <<0, 23592960, 0, 0,
         1, 13760358, 43548672, -2, 0, 22434677, 12943506, -45>>,
       <<0, 23068672, 0, 0,
         1, 12204206, 48308224, -2, 0, 27183014, 28781528, -45>>,
       <<0, 22544384, 0, 0,
         1, 10638980, 64915456, -2, 0, 24282413, 47165503, -46>>,
       <<0, 22544384, 0, 0,
         1, 10638980, 64915456, -2, 0, 24282413, 47165503, -46>>,
       <<0, 22020096, 0, 0,
         1, 9064574, 63928320, -2, 1, 26642698, 5495414, -46>>,
       <<0, 21495808, 0, 0,
         1, 7480880, 23697408, -2, 1, 65793818, 15160324, -46>>,
       <<0, 20971520, 0, 0,
         1, 5887786, 61581312, -2, 0, 63435148, 58894576, -46>>,
       <<0, 20447232, 0, 0,
         1, 4285182, 28198912, -2, 1, 27930943, 17128038, -45>>,
       <<0, 19922944, 0, 0,
         1, 2672952, 41127936, -2, 1, 52099999, 49545998, -47>>,
       <<0, 19398656, 0, 0,
         1, 1050981, 11849728, -2, 1, 896551, 49556863, -48>>,
       <<0, 19398656, 0, 0,
         1, 1050981, 11849728, -2, 1, 896551, 49556863, -48>>,
       <<0, 18874368, 0, 0,
         1, 65947163, 22953984, -3, 0, 55954090, 60374151, -47>>,
       <<0, 18350080, 0, 0,
         1, 62663538, 64774144, -3, 0, 46771687, 8826660, -45>>,
       <<0, 17825792, 0, 0,
         1, 59359707, 36368384, -3, 1, 30135253, 4194064, -46>>,
       <<0, 17301504, 0, 0,
         1, 56035418, 55558144, -3, 0, 7251054, 63596571, -45>>,
       <<0, 16777216, 0, 0,
         1, 52690417, 60465152, -3, 0, 31347674, 10454068, -45>>,
       <<0, 16777216, 0, 0,
         1, 52690417, 60465152, -3, 0, 31347674, 10454068, -45>>,
       <<0, 16252928, 0, 0,
         1, 49324445, 2985984, -3, 0, 39037964, 25933711, -46>>,
       <<0, 15728640, 0, 0,
         1, 45937235, 41992192, -3, 0, 43227343, 63803494, -52>>,
       <<0, 15204352, 0, 0,
         1, 42528519, 65187840, -3, 1, 23271735, 4637162, -45>>,
       <<0, 15204352, 0, 0,
         1, 42528519, 65187840, -3, 1, 23271735, 4637162, -45>>,
       <<0, 14680064, 0, 0,
         1, 39098023, 16011264, -3, 1, 45381185, 12702947, -45>>,
       <<0, 14155776, 0, 0,
         1, 35645465, 18927616, -3, 0, 49246175, 64748041, -45>>,
       <<0, 13631488, 0, 0,
         1, 32170560, 34660352, -3, 0, 49734684, 39012952, -45>>,
       <<0, 13631488, 0, 0,
         1, 32170560, 34660352, -3, 0, 49734684, 39012952, -45>>,
       <<0, 13107200, 0, 0,
         1, 28673017, 52023296, -3, 1, 3742376, 62055014, -46>>,
       <<0, 12582912, 0, 0,
         1, 25152540, 10981376, -3, 1, 61313255, 51400761, -46>>,
       <<0, 12582912, 0, 0,
         1, 25152540, 10981376, -3, 1, 61313255, 51400761, -46>>,
       <<0, 12058624, 0, 0,
         1, 21608824, 60928000, -3, 1, 3646180, 482191, -45>>,
       <<0, 11534336, 0, 0,
         1, 18041563, 13336576, -3, 0, 29569112, 20281404, -46>>,
       <<0, 11534336, 0, 0,
         1, 18041563, 13336576, -3, 0, 29569112, 20281404, -46>>,
       <<0, 11010048, 0, 0,
         1, 14450440, 2002944, -3, 0, 6168979, 19354682, -48>>,
       <<0, 10485760, 0, 0,
         1, 10835134, 2093056, -3, 1, 19090437, 57787400, -45>>,
       <<0, 9961472, 0, 0,
         1, 7195317, 19881984, -3, 1, 60827910, 1155990, -45>>,
       <<0, 9961472, 0, 0,
         1, 7195317, 19881984, -3, 1, 60827910, 1155990, -45>>,
       <<0, 9437184, 0, 0,
         1, 3530655, 13668352, -3, 0, 43672994, 15227892, -47>>,
       <<0, 9437184, 0, 0,
         1, 3530655, 13668352, -3, 0, 43672994, 15227892, -47>>,
       <<0, 8912896, 0, 0,
         1, 66790476, 31186944, -4, 1, 22893847, 10695666, -45>>,
       <<0, 8388608, 0, 0,
         1, 59359707, 36372480, -4, 0, 42797834, 49283132, -45>>,
       <<0, 8388608, 0, 0,
         1, 59359707, 36372480, -4, 0, 42797834, 49283132, -45>>,
       <<0, 7864320, 0, 0,
         1, 51877155, 56344576, -4, 1, 54728150, 6274566, -46>>,
       <<0, 7340032, 0, 0,
         1, 44342094, 38461440, -4, 0, 21908858, 6007496, -45>>,
       <<0, 7340032, 0, 0,
         1, 44342094, 38461440, -4, 0, 21908858, 6007496, -45>>,
       <<0, 6815744, 0, 0,
         1, 36753781, 36806656, -4, 0, 14617171, 19879528, -46>>,
       <<0, 6815744, 0, 0,
         1, 36753781, 36806656, -4, 0, 14617171, 19879528, -46>>,
       <<0, 6291456, 0, 0,
         1, 29111458, 48586752, -4, 1, 27643378, 20149210, -45>>,
       <<0, 5767168, 0, 0,
         1, 21414351, 50733056, -4, 0, 62953176, 29777495, -46>>,
       <<0, 5767168, 0, 0,
         1, 21414351, 50733056, -4, 0, 62953176, 29777495, -46>>,
       <<0, 5242880, 0, 0,
         1, 13661669, 35381248, -4, 0, 51885747, 16323551, -45>>,
       <<0, 5242880, 0, 0,
         1, 13661669, 35381248, -4, 0, 51885747, 16323551, -45>>,
       <<0, 4718592, 0, 0,
         1, 5852603, 44269568, -4, 0, 18814877, 42967817, -46>>,
       <<0, 4194304, 0, 0,
         1, 63081520, 1146880, -5, 0, 55994272, 53907089, -45>>,
       <<0, 4194304, 0, 0,
         1, 63081520, 1146880, -5, 0, 55994272, 53907089, -45>>,
       <<0, 3670016, 0, 0,
         1, 47232860, 18448384, -5, 0, 52469433, 30830668, -46>>,
       <<0, 3670016, 0, 0,
         1, 47232860, 18448384, -5, 0, 52469433, 30830668, -46>>,
       <<0, 3145728, 0, 0,
         1, 31266365, 36880384, -5, 1, 54464909, 15901166, -45>>,
       <<0, 3145728, 0, 0,
         1, 31266365, 36880384, -5, 1, 54464909, 15901166, -45>>,
       <<0, 2621440, 0, 0,
         1, 15180270, 33472512, -5, 0, 21016061, 19332778, -48>>,
       <<0, 2621440, 0, 0,
         1, 15180270, 33472512, -5, 0, 21016061, 19332778, -48>>,
       <<0, 2097152, 0, 0,
         1, 65054403, 41418752, -6, 1, 39848351, 8260068, -45>>,
       <<0, 2097152, 0, 0,
         1, 65054403, 41418752, -6, 1, 39848351, 8260068, -45>>,
       <<0, 1572864, 0, 0,
         1, 32392897, 64323584, -6, 1, 35869988, 66758201, -45>>,
       <<0, 1048576, 0, 0,
         1, 66071084, 16515072, -7, 1, 63414077, 47425180, -50>>,
       <<0, 1048576, 0, 0,
         1, 66071084, 16515072, -7, 1, 63414077, 47425180, -50>>,
       <<0, 524288, 0, 0,
         1, 66587290, 51380224, -8, 1, 41455555, 31080676, -46>>,
       <<0, 524288, 0, 0,
         1, 66587290, 51380224, -8, 1, 41455555, 31080676, -46>>,
       <<0, 0, 0, 0,
         0, 0, 0, -1023, 0, 0, 0, -1023>>,
       <<0, 0, 0, 0,
         0, 0, 0, -1023, 0, 0, 0, -1023>>,
       <<0, 66060288, 0, -1,
         0, 263517, 25755648, -7, 1, 3267302, 27077608, -46>>,
       <<0, 65011712, 0, -1,
         0, 529814, 9666560, -6, 1, 16193217, 48429010, -45>>,
       <<0, 63963136, 0, -1,
         0, 34752842, 13172736, -6, 1, 44576396, 39455796, -45>>,
       <<0, 62914560, 0, -1,
         0, 1070946, 31932416, -5, 0, 4485143, 15849299, -47>>,
       <<0, 61865984, 0, -1,
         0, 18459573, 3014656, -5, 1, 50699485, 29228328, -45>>,
       <<0, 60817408, 0, -1,
         0, 35990149, 10469376, -5, 1, 39740788, 5908093, -46>>,
       <<0, 59768832, 0, -1,
         0, 53665011, 31309824, -5, 1, 43662481, 64497671, -46>>,
       <<0, 59244544, 0, -1,
         0, 62557296, 442368, -5, 1, 59002771, 63519611, -47>>,
       <<0, 58195968, 0, -1,
         0, 6672116, 21389312, -4, 1, 21796693, 34447003, -45>>,
       <<0, 57147392, 0, -1,
         0, 15695209, 64086016, -4, 0, 53614505, 31149783, -45>>,
       <<0, 56098816, 0, -1,
         0, 24794771, 26714112, -4, 1, 52052367, 6102302, -45>>,
       <<0, 55574528, 0, -1,
         0, 29373634, 48939008, -4, 0, 50832234, 27127090, -49>>,
       <<0, 54525952, 0, -1,
         0, 38590359, 22626304, -4, 0, 12867342, 45959130, -45>>,
       <<0, 53477376, 0, -1,
         0, 47886883, 28139520, -4, 1, 14950410, 66545893, -46>>,
       <<0, 52953088, 0, -1,
         0, 52565504, 29114368, -4, 0, 26326129, 39496915, -45>>,
       <<0, 51904512, 0, -1,
         0, 61984352, 50995200, -4, 1, 57678379, 65422816, -45>>,
       <<0, 51380224, 0, -1,
         0, 66724942, 31186944, -4, 1, 21837203, 60885757, -45>>,
       <<0, 50331648, 0, -1,
         0, 4580256, 36167680, -3, 0, 8117811, 36505586, -45>>,
       <<0, 49807360, 0, -1,
         0, 6982367, 35909632, -3, 0, 53076881, 3709236, -45>>,
       <<0, 48758784, 0, -1,
         0, 11819075, 8814592, -3, 0, 15162162, 58832033, -47>>,
       <<0, 48234496, 0, -1,
         0, 14253868, 1413120, -3, 0, 25946632, 55276169, -51>>,
       <<0, 47185920, 0, -1,
         0, 19156832, 53719040, -3, 0, 23125589, 16627320, -45>>,
       <<0, 46661632, 0, -1,
         0, 21625209, 10596352, -3, 0, 26016313, 23690695, -45>>,
       <<0, 45613056, 0, -1,
         0, 26596271, 42733568, -3, 0, 41149131, 3944056, -46>>,
       <<0, 45088768, 0, -1,
         0, 29099170, 58028032, -3, 1, 21259129, 27009505, -45>>,
       <<0, 44564480, 0, -1,
         0, 31613793, 21254144, -3, 1, 52003868, 9519877, -46>>,
       <<0, 43515904, 0, -1,
         0, 36678650, 54067200, -3, 1, 30364970, 48835793, -47>>,
       <<0, 42991616, 0, -1,
         0, 39229111, 16187392, -3, 0, 33327638, 10551151, -47>>,
       <<0, 41943040, 0, -1,
         0, 44366671, 9101312, -3, 1, 35426516, 5644649, -45>>,
       <<0, 41418752, 0, -1,
         0, 46954005, 56348672, -3, 1, 51209043, 44884394, -47>>,
       <<0, 40894464, 0, -1,
         0, 49553870, 3923968, -3, 1, 55767318, 22287030, -45>>,
       <<0, 40370176, 0, -1,
         0, 52166385, 49287168, -3, 1, 8068273, 26618834, -48>>,
       <<0, 39321600, 0, -1,
         0, 57429868, 13930496, -3, 1, 46123709, 51753013, -45>>,
       <<0, 38797312, 0, -1,
         0, 60081087, 65474560, -3, 0, 8686040, 4322352, -51>>,
       <<0, 38273024, 0, -1,
         0, 62745465, 14483456, -3, 1, 42485081, 29068817, -51>>,
       <<0, 37748736, 0, -1,
         0, 65423131, 11776000, -3, 0, 49478450, 34398000, -46>>,
       <<0, 36700160, 0, -1,
         0, 1855000, 5068800, -2, 0, 36124357, 49106577, -48>>,
       <<0, 36175872, 0, -1,
         0, 3214169, 56713216, -2, 0, 29762245, 37546729, -45>>,
       <<0, 35651584, 0, -1,
         0, 4580256, 36169728, -2, 1, 50873240, 61206556, -45>>,
       <<0, 35127296, 0, -1,
         0, 5953330, 61667328, -2, 0, 48673661, 61150849, -45>>,
       <<0, 34603008, 0, -1,
         0, 7333464, 56256512, -2, 0, 53066580, 21478839, -45>>,
       <<0, 34078720, 0, -1,
         0, 8720731, 17741824, -2, 0, 44169134, 38189802, -47>>,
       <<0, 33030144, 0, -1,
         0, 11516959, 14454784, -2, 0, 44514962, 38798580, -45>>,
       <<0, 32505856, 0, -1,
         0, 12926072, 30629888, -2, 1, 37265076, 52509880, -45>>,
       <<0, 31981568, 0, -1,
         0, 14342621, 46010368, -2, 0, 6009708, 15824840, -46>>,
       <<0, 31457280, 0, -1,
         0, 15766685, 53686272, -2, 0, 34526509, 33996124, -46>>,
       <<0, 30932992, 0, -1,
         0, 17198344, 64350208, -2, 0, 37293499, 9494685, -47>>,
       <<0, 30408704, 0, -1,
         0, 18637680, 41011200, -2, 1, 63566722, 23582325, -45>>,
       <<0, 29884416, 0, -1,
         0, 20084775, 35074048, -2, 1, 59253318, 51042468, -45>>,
       <<0, 29360128, 0, -1,
         0, 21539713, 54042624, -2, 0, 61840416, 23381849, -45>>,
       <<0, 28835840, 0, -1,
         0, 23002580, 63492096, -2, 0, 65764219, 39665903, -46>>,
       <<0, 28311552, 0, -1,
         0, 24473463, 56188928, -2, 1, 42125954, 10773980, -47>> >>

\* for j = 0..127: tail and the double nearest to 2^(j/128); 2^(j/128) is
\* that double times 1 + tail
PowExpTable ==
    << <<0, 0, 0, -1023, 0, 0, 0, 0>>,
       <<0, 47109062, 42516334, -54, 0, 364394, 33239861, 0>>,
       <<1, 5768423, 14212189, -56, 0, 730767, 41386081, 0>>,
       <<1, 1547908, 8873681, -54, 0, 1099130, 7241605, 0>>,
       <<0, 53777549, 23590419, -55, 0, 1469492, 51742068, 0>>,
       <<1, 49520648, 66686714, -55, 0, 1841866, 31323870, 0>>,
       <<0, 4051864, 31901793, -57, 0, 2216262, 7707592, 0>>,
       <<0, 2685206, 53728153, -54, 0, 2592690, 46592899, 0>>,
       <<0, 31893911, 25394029, -54, 0, 2971163, 16353551, 0>>,
       <<0, 61687460, 50196476, -55, 0, 3351690, 57821175, 0>>,
       <<0, 61837148, 3120337, -60, 0, 3734284, 47436194, 0>>,
       <<1, 41995554, 26242571, -57, 0, 4118955, 67031835, 0>>,
       <<1, 22385802, 36683022, -54, 0, 4505716, 1203025, 0>>,
       <<1, 2112483, 5171797, -58, 0, 4894576, 7090636, 0>>,
       <<1, 7489774, 30798870, -54, 0, 5285547, 44641760, 0>>,
       <<0, 3471610, 22828463, -55, 0, 5678642, 10849873, 0>>,
       <<1, 443770, 44405576, -55, 0, 6073871, 8212859, 0>>,
       <<1, 63437845, 31339069, -55, 0, 6471246, 9211370, 0>>,
       <<0, 48390927, 51598271, -55, 0, 6870778, 57658229, 0>>,
       <<1, 28731165, 34728742, -54, 0, 7272481, 285908, 0>>,
       <<0, 45825487, 37367648, -54, 0, 7676364, 23640490, 0>>,
       <<1, 66707634, 59127965, -55, 0, 8082440, 50125085, 0>>,
       <<0, 43765841, 10929037, -55, 0, 8490722, 6458582, 0>>,
       <<0, 1999212, 14943357, -55, 0, 8901220, 25025686, 0>>,
       <<0, 27508600, 61384852, -54, 0, 9313947, 41247288, 0>>,
       <<0, 30901820, 41175165, -55, 0, 9728915, 62039615, 0>>,
       <<0, 1166054, 2090994, -55, 0, 10146137, 31620317, 0>>,
       <<1, 28188367, 57739358, -54, 0, 10565624, 32859009, 0>>,
       <<0, 12449883, 17410865, -55, 0, 10987389, 18865889, 0>>,
       <<1, 55076550, 40878074, -60, 0, 11411444, 14342544, 0>>,
       <<0, 47046812, 34343604, -55, 0, 11837801, 48497419, 0>>,
       <<0, 59057314, 30329743, -57, 0, 12266474, 20852566, 0>>,
       <<0, 13851987, 28355510, -55, 0, 12697474, 36812565, 0>>,
       <<0, 26247288, 44856396, -55, 0, 13130815, 5036081, 0>>,
       <<0, 66539095, 30668874, -55, 0, 13566508, 40113919, 0>>,
       <<1, 27844622, 59661060, -55, 0, 14004567, 59940849, 0>>,
       <<1, 9616243, 4935784, -54, 0, 14445005, 54176203, 0>>,
       <<1, 37879302, 55651726, -54, 0, 14887835, 17160294, 0>>,
       <<1, 7633423, 43267794, -56, 0, 15333069, 15048695, 0>>,
       <<1, 38159980, 63838997, -54, 0, 15780720, 51620069, 0>>,
       <<0, 23581225, 53103725, -55, 0, 16230803, 1192994, 0>>,
       <<1, 12883998, 36202890, -54, 0, 16683329, 11304988, 0>>,
       <<1, 36299730, 1542491, -58, 0, 17138312, 32976426, 0>>,
       <<1, 51062489, 55155227, -56, 0, 17595766, 22063255, 0>>,
       <<0, 14220120, 12758033, -59, 0, 18055704, 6392109, 0>>,
       <<0, 26837582, 50750703, -54, 0, 18518139, 18677847, 0>>,
       <<0, 62077046, 44106617, -57, 0, 18983085, 29441232, 0>>,
       <<0, 16769935, 51319344, -54, 0, 19450556, 14144478, 0>>,
       <<0, 27538350, 58372016, -56, 0, 19920565, 20326951, 0>>,
       <<0, 13070202, 55894135, -54, 0, 20393126, 33414413, 0>>,
       <<1, 65342720, 7447438, -55, 0, 20868253, 43855015, 0>>,
       <<1, 33010487, 9675593, -55, 0, 21345960, 47146562, 0>>,
       <<1, 37204399, 17774687, -56, 0, 21826261, 43863938, 0>>,
       <<1, 25465275, 8084726, -55, 0, 22309170, 39686671, 0>>,
       <<0, 13451590, 16635790, -54, 0, 22794701, 45426650, 0>>,
       <<0, 48639435, 59415301, -56, 0, 23282869, 9947133, 0>>,
       <<0, 1636472, 35410953, -54, 0, 23773687, 21517353, 0>>,
       <<0, 20046164, 1689322, -60, 0, 24267170, 39405239, 0>>,
       <<0, 17611146, 56934453, -54, 0, 24763333, 28123464, 0>>,
       <<1, 54071960, 26834591, -55, 0, 25262190, 24566793, 0>>,
       <<1, 51179854, 66014632, -55, 0, 25763756, 3822981, 0>>,
       <<1, 18144802, 19655086, -55, 0, 26268045, 13419296, 0>>,
       <<1, 15972190, 5658712, -54, 0, 26775072, 39133733, 0>>,
       <<0, 29633184, 8264036, -58, 0, 27284853, 5024115, 0>>,
       <<1, 15530991, 56500776, -54, 0, 27797401, 41892813, 0>>,
       <<1, 42249057, 53787010, -57, 0, 28312733, 17554111, 0>>,
       <<1, 14285806, 7186926, -57, 0, 28830863, 6625839, 0>>,
       <<1, 3608405, 14714961, -55, 0, 29351806, 22123652, 0>>,
       <<1, 34068767, 39468751, -56, 0, 29875578, 15490932, 0>>,
       <<1, 29070000, 9141680, -55, 0, 30402194, 10846580, 0>>,
       <<1, 25578631, 39184010, -55, 0, 30931669, 37906377, 0>>,
       <<0, 2568919, 34198739, -54, 0, 31464019, 64904511, 0>>,
       <<1, 46970670, 21865757, -56, 0, 31999260, 65732999, 0>>,
       <<0, 20660053, 6799467, -54, 0, 32537408, 19972402, 0>>,
       <<0, 24836202, 64384085, -57, 0, 33078477, 47140450, 0>>,
       <<1, 36204875, 62115650, -55, 0, 33622485, 4069906, 0>>,
       <<1, 14314940, 20657972, -54, 0, 34169446, 21810707, 0>>,
       <<1, 1548558, 35258142, -55, 0, 34719377, 35899309, 0>>,
       <<1, 20255798, 7493486, -54, 0, 35272294, 54825709, 0>>,
       <<0, 2841046, 51284480, -54, 0, 35828214, 25847449, 0>>,
       <<0, 57527280, 32565940, -55, 0, 36387152, 36348123, 0>>,
       <<1, 23959591, 12969983, -57, 0, 36949125, 45433996, 0>>,
       <<0, 50176214, 32726852, -56, 0, 37514150, 18183990, 0>>,
       <<1, 12732393, 52313475, -54, 0, 38082242, 59899846, 0>>,
       <<1, 57306658, 57417257, -58, 0, 38653420, 13485541, 0>>,
       <<1, 50921055, 9484633, -57, 0, 39227698, 63459855, 0>>,
       <<1, 9490632, 49609130, -54, 0, 39805095, 64900688, 0>>,
       <<1, 24288053, 57052747, -55, 0, 40385628, 13240250, 0>>,
       <<0, 7077642, 59887143, -56, 0, 40969312, 44298384, 0>>,
       <<0, 57970040, 17462203, -57, 0, 41556166, 31662883, 0>>,
       <<1, 32588040, 39985763, -55, 0, 42146206, 56485221, 0>>,
       <<0, 46604728, 65155541, -55, 0, 42739451, 4861235, 0>>,
       <<1, 7271540, 62700309, -54, 0, 43335916, 37627229, 0>>,
       <<0, 3345511, 15610322, -54, 0, 43935620, 53523288, 0>>,
       <<0, 18506011, 41114291, -55, 0, 44538581, 24772031, 0>>,
       <<1, 12055397, 59678132, -55, 0, 45144815, 64222074, 0>>,
       <<0, 50765284, 46871431, -55, 0, 45754342, 22729645, 0>>,
       <<1, 2024402, 47307258, -54, 0, 46367178, 26064486, 0>>,
       <<1, 24180309, 48017082, -58, 0, 46983342, 5182971, 0>>,
       <<1, 2687887, 27719232, -54, 0, 47602851, 31807802, 0>>,
       <<1, 37076238, 11375412, -57, 0, 48225724, 50028103, 0>>,
       <<1, 8108186, 56134197, -54, 0, 48851980, 10552906, 0>>,
       <<0, 20968898, 39837133, -56, 0, 49481636, 4964818, 0>>,
       <<1, 7307006, 43161772, -54, 0, 50114710, 64429577, 0>>,
       <<0, 14396300, 11472051, -56, 0, 50751223, 25514652, 0>>,
       <<0, 62442647, 10485140, -55, 0, 51391191, 67096698, 0>>,
       <<0, 20456436, 17389996, -55, 0, 52034635, 39309643, 0>>,
       <<0, 15952846, 5118567, -57, 0, 52681573, 452533, 0>>,
       <<0, 31116059, 9574760, -57, 0, 53332023, 15700073, 0>>,
       <<1, 2262560, 63747538, -55, 0, 53986005, 22922234, 0>>,
       <<1, 65754959, 67107439, -55, 0, 54643538, 34048380, 0>>,
       <<1, 224142, 7711049, -54, 0, 55304642, 887282, 0>>,
       <<0, 19456361, 37554087, -56, 0, 55969335, 16491655, 0>>,
       <<1, 10774408, 4203023, -55, 0, 56637637, 46760856, 0>>,
       <<0, 60199989, 29463212, -55, 0, 57309568, 64696965, 0>>,
       <<0, 17733227, 93003, -55, 0, 57985148, 50443360, 0>>,
       <<1, 11880513, 62144031, -55, 0, 58664396, 58432351, 0>>,
       <<1, 38448718, 54988233, -55, 0, 59347333, 16097577, 0>>,
       <<0, 19759384, 3836115, -56, 0, 60033977, 59457526, 0>>,
       <<0, 15825684, 27095665, -55, 0, 60724350, 63392899, 0>>,
       <<1, 66962595, 64197104, -55, 0, 61418472, 44339418, 0>>,
       <<1, 57386552, 35878013, -55, 0, 62116363, 26109937, 0>>,
       <<0, 61927184, 27926536, -55, 0, 62818043, 39934503, 0>>,
       <<0, 17491248, 61467442, -55, 0, 63523533, 57391767, 0>>,
       <<0, 43592268, 30508526, -55, 0, 64232854, 57558336, 0>>,
       <<1, 59633337, 3924973, -55, 0, 64946027, 27049492, 0>>,
       <<0, 31608531, 26332573, -56, 0, 65663072, 27168984, 0>>,
       <<0, 12677200, 23121033, -58, 0, 66384010, 59732465, 0>> >>

\* the arithmetic instructions of pow in the order of the machine code, each
\* <<register written, operation, registers read>>; fma is a * b + c and fms
\* a * b - c, both rounded once.  First the logarithm of x = 2^k * z as
\* hi + lo, with r = z * invc - 1 and log(x) = k * ln2 + log(c) + log1p(r),
\* then ehi + elo = y * log(x)
PowLogCode ==
    << <<"t1", "fma", "kd", "Ln2hi", "logc">>,
       <<"lo1", "fma", "kd", "Ln2lo", "logctail">>,
       <<"r", "fma", "z", "invc", "mone">>,
       <<"ar", "mul", "r", "A0">>,
       <<"p12", "fma", "r", "A2", "A1">>,
       <<"p34", "fma", "r", "A4", "A3">>,
       <<"t2", "add", "r", "t1">>,
       <<"ar2", "mul", "r", "ar">>,
       <<"d", "sub", "t1", "t2">>,
       <<"ar3", "mul", "r", "ar2">>,
       <<"lo3", "fms", "ar", "r", "ar2">>,
       <<"lo2", "add", "d", "r">>,
       <<"p56", "fma", "r", "A6", "A5">>,
       <<"hi", "add", "t2", "ar2">>,
       <<"d", "sub", "t2", "hi">>,
       <<"q", "fma", "p56", "ar2", "p34">>,
       <<"lo4", "add", "d", "ar2">>,
       <<"q", "fma", "ar2", "q", "p12">>,
       <<"lo", "add", "lo1", "lo2">>,
       <<"lo", "add", "lo", "lo3">>,
       <<"lo", "add", "lo", "lo4">>,
       <<"lo", "fma", "ar3", "q", "lo">>,
       <<"loghi", "add", "hi", "lo">>,
       <<"d", "sub", "hi", "loghi">>,
       <<"loglo", "add", "d", "lo">>,
       <<"ehi", "mul", "y", "loghi">>,
       <<"d", "fms", "loghi", "y", "ehi">>,
       <<"elo", "fma", "y", "loglo", "d">> >>

\* then exp(ehi + elo) for 2^-54 <= |ehi| < 2^9: ehi = k * ln2/N + r, and
\* exp(ehi) = 2^(k/N) * exp(r); the table is read at k once kd is there
PowExpCode1 ==
    << <<"kd", "fma", "ehi", "InvLn2N", "Shift">>,
       <<"kd", "sub", "kd", "Shift">>,
       <<"r", "fma", "kd", "NegLn2hiN", "ehi">>,
       <<"r", "fma", "kd", "NegLn2loN", "r">>,
       <<"r", "add", "elo", "r">> >>
PowExpCode2 ==
    << <<"p", "fma", "r", "C3", "C2">>,
       <<"t", "add", "r", "tail">>,
       <<"r2", "mul", "r", "r">>,
       <<"r", "fma", "r", "C5", "C4">>,
       <<"p", "fma", "p", "r2", "t">>,
       <<"r2", "mul", "r2", "r2">>,
       <<"r", "fma", "r", "r2", "p">>,
       <<"result", "fma", "r", "scale", "scale">> >>

\* the registers after the instructions from..to of code, which are run in
\* order: those of the first half, then the others
RECURSIVE PowRun(_, _, _, _)
PowRun(code, from, to, regs) ==
    IF from > to THEN regs
    ELSE IF from < to
    THEN Let([half \in {PowRun(code, from, (from + to) \div 2, regs)} |->
             PowRun(code, ((from + to) \div 2) + 1, to, half)])
    ELSE Let([ins \in {code[from]}, a \in {regs[code[from][3]]}, b \in {regs[code[from][4]]} |->
         Let([val \in {CASE ins[2] = "add" -> DAdd(a, b)
               [] ins[2] = "sub" -> DSub(a, b)
               [] ins[2] = "mul" -> DMul(a, b)
               [] ins[2] = "fma" -> DFma(a, b, regs[ins[5]])
               [] ins[2] = "fms" -> DFma(a, b, DNeg(regs[ins[5]]))} |->
             (ins[1] :> val) @@ regs])])

\* pow(x, y) of the C library for x not negative and y above zero, and for
\* |y * log(x)| below 2^9, as it is for the x between 0 and 2 and the y = 5
\* that dielectric::reflectance passes.  x = 2^k * z with z in
\* [0x1.69555p-1, 0x1.69555p0), and the interval of z is told by its upper
\* bits; 2^(k/N) for the k of the exponential is a double of the table with
\* its exponent moved
pow(a, b) ==
    Let([x \in {a}, y \in {b} |->
        IF IsZero(x) THEN DMul(x, x)
        ELSE
        Let([top \in {BitsFrom(x.m, 32) + (BitsFrom(x.m, 45) % 128) * Limb} |->
        Let([T \in {PowLogTable[(((top - 431445) % 2^20) \div Limb) + 1]} |->
        Let([l \in {PowRun(PowLogCode, 1, Len(PowLogCode),
                   [z |-> [s |-> 0, m |-> x.m, e |-> IF top >= 431445 THEN -53 ELSE -52],
                    kd |-> DFromInt(x.e + 52 + (IF top >= 431445 THEN 1 ELSE 0)),
                    y |-> y, invc |-> Dbl(T, 1), logc |-> Dbl(T, 5),
                    logctail |-> Dbl(T, 9)] @@ PowConstants)} |->
            IF IsZero(l.ehi) \/ l.ehi.e + 52 < -54 THEN DAdd(DOne, l.ehi)
            ELSE CASE l.ehi.e + 52 < 9 ->
            Let([e \in {PowRun(PowExpCode1, 1, Len(PowExpCode1), l)} |->
            Let([k \in {DToInt(e.kd)}, E \in {PowExpTable} |->
                PowRun(PowExpCode2, 1, Len(PowExpCode2),
                       [tail |-> Dbl(E[(k % 128) + 1], 1),
                        scale |-> [Dbl(E[(k % 128) + 1], 5) EXCEPT
                                      !.e = @ + (k \div 128)]] @@ e).result])])])])])])

---------------------------------------------------------------------------
(* vec3 and ray in doubles: main's render loop, the camera and the         *)
(* ray_color it calls compute with these.                                  *)

\* vec3(x, y, z) of three ints
DVec(x, y, z) == <<DFromInt(x), DFromInt(y), DFromInt(z)>>
DBlack == <<DZero, DZero, DZero>>
DWhite == <<DOne, DOne, DOne>>

\* operator-() const
DVNeg(a) == Let([v \in {a} |-> <<DNeg(v[1]), DNeg(v[2]), DNeg(v[3])>>])
\* operator+(const vec3&, const vec3&)
DVAdd(a, b) ==
    Let([u \in {a}, v \in {b} |-> <<DAdd(u[1], v[1]), DAdd(u[2], v[2]), DAdd(u[3], v[3])>>])
\* operator-(const vec3&, const vec3&)
DVSub(a, b) ==
    Let([u \in {a}, v \in {b} |-> <<DSub(u[1], v[1]), DSub(u[2], v[2]), DSub(u[3], v[3])>>])
\* operator*(const vec3&, const vec3&)
DVMul(a, b) ==
    Let([u \in {a}, v \in {b} |-> <<DMul(u[1], v[1]), DMul(u[2], v[2]), DMul(u[3], v[3])>>])
\* operator*(double, const vec3&)
DVScale(a, b) ==
    Let([t \in {a}, v \in {b} |-> <<DMul(t, v[1]), DMul(t, v[2]), DMul(t, v[3])>>])
\* operator/(vec3, double): (1/t) * v
DVDiv(v, t) == DVScale(DDiv(DOne, t), v)

\* e[0]*e[0] + e[1]*e[1] + e[2]*e[2]
Dlength_squared(a) ==
    Let([e \in {a} |-> DAdd(DAdd(DMul(e[1], e[1]), DMul(e[2], e[2])), DMul(e[3], e[3]))])
Dlength(v) == DSqrt(Dlength_squared(v))

Ddot(a, b) ==
    Let([u \in {a}, v \in {b} |->
        DAdd(DAdd(DMul(u[1], v[1]), DMul(u[2], v[2])), DMul(u[3], v[3]))])

Dcross(a, b) ==
    Let([u \in {a}, v \in {b} |->
        << DSub(DMul(u[2], v[3]), DMul(u[3], v[2])),
           DSub(DMul(u[3], v[1]), DMul(u[1], v[3])),
           DSub(DMul(u[1], v[2]), DMul(u[2], v[1])) >>])

\* v / v.length()
Dunit_vector(a) == Let([v \in {a} |-> DVDiv(v, Dlength(v))])

\* ray::at: orig + t*dir
Dat(a, t) == Let([r \in {a} |-> DVAdd(r.orig, DVScale(t, r.dir))])

\* const auto s = 1e-8
DNearZeroS == [s |-> 0, m |-> <<3130, 4484, 952, 2803, 1>>, e |-> -79]
\* vec3::near_zero
Dnear_zero(a) ==
    Let([e \in {a} |->
        /\ DLt(DAbs(e[1]), DNearZeroS)
        /\ DLt(DAbs(e[2]), DNearZeroS)
        /\ DLt(DAbs(e[3]), DNearZeroS)])

\* v - 2*dot(v,n)*n
Dreflect(a, b) ==
    Let([v \in {a}, n \in {b} |-> DVSub(v, DVScale(DMul(DTwo, Ddot(v, n)), n))])

\* fmin of two doubles
Dfmin(a, b) == Let([x \in {a}, y \in {b} |-> IF DLt(y, x) THEN y ELSE x])

Drefract(a, b, c) ==
    Let([uv \in {a}, n \in {b}, etai_over_etat \in {c} |->
    Let([cos_theta \in {Dfmin(Ddot(DVNeg(uv), n), DOne)} |->
    Let([r_out_perp \in {DVScale(etai_over_etat, DVAdd(uv, DVScale(cos_theta, n)))} |->
    Let([r_out_parallel \in {DVScale(DNeg(DSqrt(DAbs(DSub(DOne, Dlength_squared(r_out_perp))))), n)}
        |-> DVAdd(r_out_perp, r_out_parallel)])])])])


---------------------------------------------------------------------------
(* vec3: a triple <<x, y, z>> of rationals.                                *)

V(x, y, z) == <<I(x), I(y), I(z)>>

VNeg(v) == <<QNeg(v[1]), QNeg(v[2]), QNeg(v[3])>>
VAdd(u, v) == <<QAdd(u[1], v[1]), QAdd(u[2], v[2]), QAdd(u[3], v[3])>>
VSub(u, v) == <<QSub(u[1], v[1]), QSub(u[2], v[2]), QSub(u[3], v[3])>>
VMul(u, v) == <<QMul(u[1], v[1]), QMul(u[2], v[2]), QMul(u[3], v[3])>>
VScale(t, v) == <<QMul(t, v[1]), QMul(t, v[2]), QMul(t, v[3])>>
\* operator/(vec3 v, double t) is (1/t) * v
VDiv(v, t) == VScale(QDiv(One, t), v)

length_squared(v) == QAdd(QAdd(QMul(v[1], v[1]), QMul(v[2], v[2])), QMul(v[3], v[3]))
length(v) == QSqrt(length_squared(v))
dot(u, v) == QAdd(QAdd(QMul(u[1], v[1]), QMul(u[2], v[2])), QMul(u[3], v[3]))
cross(u, v) ==
    << QSub(QMul(u[2], v[3]), QMul(u[3], v[2])),
       QSub(QMul(u[3], v[1]), QMul(u[1], v[3])),
       QSub(QMul(u[1], v[2]), QMul(u[2], v[1])) >>
unit_vector(v) == VDiv(v, length(v))

---------------------------------------------------------------------------
(* ray: orig + t*dir.                                                      *)

Ray(o, d) == [orig |-> o, dir |-> d]
at(r, t) == VAdd(r.orig, VScale(t, r.dir))

(* rand() of the C library, which random_double() calls.  Its state is one *)
(* hidden object of the whole program: each call reads it and advances it. *)
(* The generator is additive: each word of 32 bits is the sum of the words *)
(* 31 and 3 places before it, and rand() returns the word without its      *)
(* lowest bit.  The state is the last 31 words, the oldest first, each as  *)
(* its upper and its lower 16 bits.                                        *)

\* the state main starts in: srand is never called, so the seed is 1
RandStart ==
    << <<15873, 20766>>, <<20048, 35498>>, <<24836, 35845>>, <<62800, 1559>>,
       <<33899, 28949>>, <<27161, 35116>>, <<35178, 38831>>, <<56136, 63798>>,
       <<5257, 33876>>, <<14335, 53510>>, <<46475, 65436>>, <<23009, 28932>>,
       <<53137, 35401>>, <<2359, 35971>>, <<21191, 42097>>, <<36137, 16041>>,
       <<8015, 49921>>, <<50139, 29118>>, <<14772, 19996>>, <<63652, 20217>>,
       <<19595, 32945>>, <<6637, 49960>>, <<34751, 19421>>, <<51634, 16613>>,
       <<59886, 19227>>, <<17282, 44775>>, <<21339, 27457>>, <<62398, 50650>>,
       <<39189, 14769>>, <<5797, 48355>>, <<26484, 42189>> >>

\* rand() in state g: the value it returns and the state it leaves
rand(g) ==
    Let([lo \in {g[1][2] + g[29][2]} |->
    Let([w \in {<<(g[1][1] + g[29][1] + (lo \div 65536)) % 65536, lo % 65536>>} |->
        [x |-> w[1] * 32768 + (w[2] \div 2), rng |-> Tail(g) \o <<w>>]])])

---------------------------------------------------------------------------

\* main has not started
RenderIdle ==
    /\ scene = [pc |-> "start", a |-> 0, b |-> 0]
    /\ cout = <<>>
    /\ render = [pc |-> "start", j |-> 0, i |-> 0, s |-> 0, pixel_color |-> DBlack]
    /\ trace = <<>>

\* no bounce has been followed
LoopIdle ==
    /\ recur = [pc |-> "idle"]
    /\ iter = [pc |-> "idle"]

LaterIdle == rng = RandStart /\ RenderIdle /\ LoopIdle

---------------------------------------------------------------------------
(* hit_record and set_face_normal.  mat_ptr is the identity of a material  *)
(* (0 is the null pointer).                                                *)

HitRecord(p, normal, mat_ptr, t, front_face) ==
    [p |-> p, normal |-> normal, mat_ptr |-> mat_ptr, t |-> t,
     front_face |-> front_face]

\* a variant that takes the front face to be the one the ray leaves through
set_face_normalFlipped(h, r, outward_normal) ==
    LET ff == QGt(dot(r.dir, outward_normal), Zero)
    IN  [h EXCEPT !.front_face = ff,
                  !.normal = IF ff THEN outward_normal ELSE VNeg(outward_normal)]

set_face_normal(h, r, outward_normal) ==
    LET ff == QLt(dot(r.dir, outward_normal), Zero)
    IN  [h EXCEPT !.front_face = ff,
                  !.normal = IF ff THEN outward_normal ELSE VNeg(outward_normal)]

---------------------------------------------------------------------------
(* sphere                                                                  *)

Sphere(cen, r, m) == [center |-> cen, radius |-> r, mat_ptr |-> m]

\* the quadratic's coefficients, as sphere::hit computes them
HitA(s, r) == length_squared(r.dir)
HitHalfB(s, r) == dot(VSub(r.orig, s.center), r.dir)
HitC(s, r) == QSub(length_squared(VSub(r.orig, s.center)), QMul(s.radius, s.radius))
Discriminant(s, r) ==
    QSub(QMul(HitHalfB(s, r), HitHalfB(s, r)), QMul(HitA(s, r), HitC(s, r)))
SmallRoot(s, r) ==
    QDiv(QSub(QNeg(HitHalfB(s, r)), QSqrt(Discriminant(s, r))), HitA(s, r))
LargeRoot(s, r) ==
    QDiv(QAdd(QNeg(HitHalfB(s, r)), QSqrt(Discriminant(s, r))), HitA(s, r))

\* a variant that also rejects a root equal to t_max
OutOfRangeExclusive(root, t_min, t_max) == QLt(root, t_min) \/ QLe(t_max, root)

\* root < t_min || root > t_max
OutOfRange(root, t_min, t_max) == QLt(root, t_min) \/ QGt(root, t_max)

\* the record sphere::hit fills once a root is accepted
FillRecord(s, r, root, h) ==
    LET p == at(r, root)
        outward_normal == VDiv(VSub(p, s.center), s.radius)
        h1 == [h EXCEPT !.t = root, !.p = p]
        h2 == set_face_normal(h1, r, outward_normal)
    IN  [h2 EXCEPT !.mat_ptr = s.mat_ptr]

\* a variant that tests the larger root before the smaller
sphere_hitLargeFirst(s, r, t_min, t_max, h) ==
    IF QLt(Discriminant(s, r), Zero)
    THEN [hit |-> FALSE, rec |-> h]
    ELSE IF ~OutOfRange(LargeRoot(s, r), t_min, t_max)
    THEN [hit |-> TRUE, rec |-> FillRecord(s, r, LargeRoot(s, r), h)]
    ELSE IF ~OutOfRange(SmallRoot(s, r), t_min, t_max)
    THEN [hit |-> TRUE, rec |-> FillRecord(s, r, SmallRoot(s, r), h)]
    ELSE [hit |-> FALSE, rec |-> h]

\* a variant that stores the root in rec.t before it checks the range
sphere_hitEarlyWrite(s, r, t_min, t_max, h) ==
    IF QLt(Discriminant(s, r), Zero)
    THEN [hit |-> FALSE, rec |-> h]
    ELSE IF ~OutOfRange(SmallRoot(s, r), t_min, t_max)
    THEN [hit |-> TRUE, rec |-> FillRecord(s, r, SmallRoot(s, r), h)]
    ELSE IF ~OutOfRange(LargeRoot(s, r), t_min, t_max)
    THEN [hit |-> TRUE, rec |-> FillRecord(s, r, LargeRoot(s, r), h)]
    ELSE [hit |-> FALSE, rec |-> [h EXCEPT !.t = LargeRoot(s, r)]]

\* sphere::hit: the returned bool and the out-parameter rec
sphere_hit(s, r, t_min, t_max, h) ==
    LET oc == VSub(r.orig, s.center)
        a == length_squared(r.dir)
        half_b == dot(oc, r.dir)
        c == QSub(length_squared(oc), QMul(s.radius, s.radius))
        discriminant == QSub(QMul(half_b, half_b), QMul(a, c))
        sqrtd == QSqrt(discriminant)
        root1 == QDiv(QSub(QNeg(half_b), sqrtd), a)
        root2 == QDiv(QAdd(QNeg(half_b), sqrtd), a)
    IN  IF QLt(discriminant, Zero)
        THEN [hit |-> FALSE, rec |-> h]
        ELSE IF ~OutOfRange(root1, t_min, t_max)
        THEN [hit |-> TRUE, rec |-> FillRecord(s, r, root1, h)]
        ELSE IF ~OutOfRange(root2, t_min, t_max)
        THEN [hit |-> TRUE, rec |-> FillRecord(s, r, root2, h)]
        ELSE [hit |-> FALSE, rec |-> h]

\* the inputs on which sphere::hit's doubles are exact
SphereInDomain(s, r) ==
    /\ HitA(s, r) # Zero
    /\ s.radius # Zero
    /\ QLt(Discriminant(s, r), Zero) \/ HasSqrt(Discriminant(s, r))

---------------------------------------------------------------------------
(* hittable_list                                                           *)

\* The locals of hittable_list::hit and its out-parameter rec are carried in
\* st = [temp_rec, hit_anything, closest_so_far, rec].  (CHOOSE x \in {e} : TRUE
\* is e, evaluated once.)

\* a variant of the loop body that never shrinks closest_so_far
ListStepNoShrink(object, r, t_min, st) ==
    CHOOSE next \in
        { IF res.hit
          THEN [temp_rec |-> res.rec, hit_anything |-> TRUE,
                closest_so_far |-> st.closest_so_far, rec |-> res.rec]
          ELSE [st EXCEPT !.temp_rec = res.rec]
          : res \in {sphere_hit(object, r, t_min, st.closest_so_far, st.temp_rec)} } : TRUE

\* one pass of the loop body of hittable_list::hit, on child object
ListStep(object, r, t_min, st) ==
    CHOOSE next \in
        { IF res.hit
          THEN [temp_rec |-> res.rec, hit_anything |-> TRUE,
                closest_so_far |-> res.rec.t, rec |-> res.rec]
          ELSE [st EXCEPT !.temp_rec = res.rec]
          : res \in {sphere_hit(object, r, t_min, st.closest_so_far, st.temp_rec)} } : TRUE

\* the loop of hittable_list::hit from child i on
RECURSIVE ListScan(_, _, _, _, _)
ListScan(objs, i, r, t_min, st) ==
    IF i > Len(objs) THEN st
    ELSE CHOOSE out \in
             { ListScan(objs, i + 1, r, t_min, next)
               : next \in {ListStep(objs[i], r, t_min, st)} } : TRUE

\* hittable_list::hit: the returned bool and the out-parameter rec.  fresh is
\* the content of the local temp_rec before the loop (t and front_face are
\* indeterminate there; the loop never reads them)
hittable_list_hit(objs, r, t_min, t_max, h, fresh) ==
    LET st == ListScan(objs, 1, r, t_min,
                       [temp_rec |-> fresh, hit_anything |-> FALSE,
                        closest_so_far |-> t_max, rec |-> h])
    IN  [hit |-> st.hit_anything, rec |-> st.rec]

---------------------------------------------------------------------------
(* vec3::near_zero, reflect, refract and the random vectors.               *)

\* 1e-8
NearZeroS == Q(1, 100000000)

\* std::abs(e) < s for s = 1/k: |n|/d < 1/k iff |n| * k < d iff
\* |n| <= (d - 1) div k, which needs no product beyond TLC's 32 bits
AbsLess(e, s) == Abs(e.n) <= (e.d - 1) \div s.d

near_zero(v) ==
    /\ AbsLess(v[1], NearZeroS)
    /\ AbsLess(v[2], NearZeroS)
    /\ AbsLess(v[3], NearZeroS)

reflect(v, n) == VSub(v, VScale(QMul(Two, dot(v, n)), n))

refract(uv, n, etai_over_etat) ==
    LET cos_theta == QMin(dot(VNeg(uv), n), One)
        r_out_perp == VScale(etai_over_etat, VAdd(uv, VScale(cos_theta, n)))
        r_out_parallel ==
            VScale(QNeg(QSqrt(QAbs(QSub(One, length_squared(r_out_perp))))), n)
    IN  VAdd(r_out_perp, r_out_parallel)

\* the test of random_in_unit_sphere()'s loop: the candidate p is returned
\* when length_squared < 1; otherwise the loop draws the next candidate
InUnitSphere(p) == QLt(length_squared(p), One)
\* random_unit_vector(), from the point random_in_unit_sphere() returned
random_unit_vector(p) == unit_vector(p)

---------------------------------------------------------------------------
(* The materials.                                                          *)

lambertian(a) == [kind |-> "lambertian", albedo |-> a]

\* a variant that keeps f as given
metalNoClamp(a, f) == [kind |-> "metal", albedo |-> a, fuzz |-> f]

metal(a, f) == [kind |-> "metal", albedo |-> a, fuzz |-> IF QLt(f, One) THEN f ELSE One]

dielectric(index_of_refraction) == [kind |-> "dielectric", ir |-> index_of_refraction]

\* a variant without the near-zero fallback
lambertian_scatterUnguarded(m, r_in, h, p) ==
    [ret |-> TRUE, attenuation |-> m.albedo,
     scattered |-> Ray(h.p, VAdd(h.normal, random_unit_vector(p)))]

\* lambertian::scatter; p is what random_in_unit_sphere() returns
lambertian_scatter(m, r_in, h, p) ==
    LET sum == VAdd(h.normal, random_unit_vector(p))
        scatter_direction == IF near_zero(sum) THEN h.normal ELSE sum
    IN  [ret |-> TRUE, attenuation |-> m.albedo,
         scattered |-> Ray(h.p, scatter_direction)]

\* a variant that lets a direction along the surface through
metal_scatterKeepsGrazing(m, r_in, h, p) ==
    LET reflected == reflect(unit_vector(r_in.dir), h.normal)
        scattered == Ray(h.p, VAdd(reflected, VScale(m.fuzz, p)))
    IN  [ret |-> QLe(Zero, dot(scattered.dir, h.normal)), attenuation |-> m.albedo,
         scattered |-> scattered]

\* metal::scatter; p is what random_in_unit_sphere() returns
metal_scatter(m, r_in, h, p) ==
    LET reflected == reflect(unit_vector(r_in.dir), h.normal)
        scattered == Ray(h.p, VAdd(reflected, VScale(m.fuzz, p)))
    IN  [ret |-> QGt(dot(scattered.dir, h.normal), Zero), attenuation |-> m.albedo,
         scattered |-> scattered]

\* pow(x, 5)
Pow5(x) == QMul(QMul(QMul(QMul(x, x), x), x), x)

\* dielectric::reflectance, Schlick's approximation
reflectance(cosine, ref_idx) ==
    LET r0 == QDiv(QSub(One, ref_idx), QAdd(One, ref_idx))
        r00 == QMul(r0, r0)
    IN  QAdd(r00, QMul(QSub(One, r00), Pow5(QSub(One, cosine))))

\* a variant that takes the ratio of the other face
dielectric_scatterWrongFace(m, r_in, h, x) ==
    LET refraction_ratio == IF h.front_face THEN m.ir ELSE QDiv(One, m.ir)
        unit_direction == unit_vector(r_in.dir)
        cos_theta == QMin(dot(VNeg(unit_direction), h.normal), One)
        sin_theta == QSqrt(QSub(One, QMul(cos_theta, cos_theta)))
        cannot_refract == QGt(QMul(refraction_ratio, sin_theta), One)
        direction ==
            IF cannot_refract \/ QGt(reflectance(cos_theta, refraction_ratio), x)
            THEN reflect(unit_direction, h.normal)
            ELSE refract(unit_direction, h.normal, refraction_ratio)
    IN  [ret |-> TRUE, attenuation |-> V(1, 1, 1), scattered |-> Ray(h.p, direction)]

\* dielectric::scatter; x is what random_double() returns, when it is called
dielectric_scatter(m, r_in, h, x) ==
    LET refraction_ratio == IF h.front_face THEN QDiv(One, m.ir) ELSE m.ir
        unit_direction == unit_vector(r_in.dir)
        cos_theta == QMin(dot(VNeg(unit_direction), h.normal), One)
        sin_theta == QSqrt(QSub(One, QMul(cos_theta, cos_theta)))
        cannot_refract == QGt(QMul(refraction_ratio, sin_theta), One)
        direction ==
            IF cannot_refract \/ QGt(reflectance(cos_theta, refraction_ratio), x)
            THEN reflect(unit_direction, h.normal)
            ELSE refract(unit_direction, h.normal, refraction_ratio)
    IN  [ret |-> TRUE, attenuation |-> V(1, 1, 1), scattered |-> Ray(h.p, direction)]

\* material::scatter, dispatched on the material's class; draw holds the
\* random values the call consumes: p for the vector, x for the number
scatter(m, r_in, h, draw) ==
    IF m.kind = "lambertian" THEN lambertian_scatter(m, r_in, h, draw.p)
    ELSE IF m.kind = "metal" THEN metal_scatter(m, r_in, h, draw.p)
    ELSE dielectric_scatter(m, r_in, h, draw.x)

\* the inputs on which scatter's doubles are exact
ScatterInDomain(m, r_in, h, draw) ==
    IF m.kind = "lambertian"
    THEN /\ draw.p # V(0, 0, 0)
         /\ HasSqrt(length_squared(draw.p))
    ELSE /\ r_in.dir # V(0, 0, 0)
         /\ HasSqrt(length_squared(r_in.dir))
         /\ m.kind = "dielectric" =>
              LET ratio == IF h.front_face THEN QDiv(One, m.ir) ELSE m.ir
                  ud == unit_vector(r_in.dir)
                  c == QMin(dot(VNeg(ud), h.normal), One)
                  sin2 == QSub(One, QMul(c, c))
                  perp == VScale(ratio, VAdd(ud, VScale(c, h.normal)))
              IN  /\ ~QLt(sin2, Zero)
                  /\ HasSqrt(sin2)
                  /\ \/ QGt(QMul(ratio, QSqrt(sin2)), One)
                     \/ HasSqrt(QAbs(QSub(One, length_squared(perp))))

\* the scene's materials: random_scene's ground_material, material1,
\* material2 and material3
SceneMaterials ==
    << lambertian(<<Q(1, 2), Q(1, 2), Q(1, 2)>>),
       dielectric(Q(3, 2)),
       lambertian(<<Q(2, 5), Q(1, 5), Q(1, 10)>>),
       metal(<<Q(7, 10), Q(3, 5), Q(1, 2)>>, Zero) >>

---------------------------------------------------------------------------
(* ray_color.  An invocation runs in one step from its entry to its return *)
(* or to its recursive call (RayColorBody); the rest of an invocation that *)
(* made the recursive call runs when the callee has returned               *)
(* (RayColorResume).                                                       *)

Infinity == Q(1, 0)
\* the t_min ray_color passes to world.hit
ShadowAcneEps == Q(1, 1000)

\* hit_record rec; as ray_color and hittable_list::hit declare it: p and
\* normal are vec3(), mat_ptr is null, t and front_face are indeterminate
\* (no path reads them before sphere::hit has written them)
FreshRecords ==
    { HitRecord(V(0, 0, 0), V(0, 0, 0), 0, I(0), FALSE),
      HitRecord(V(0, 0, 0), V(0, 0, 0), 0, I(-7), TRUE) }
FreshRecord == HitRecord(V(0, 0, 0), V(0, 0, 0), 0, I(0), FALSE)

Black == V(0, 0, 0)

\* a variant that lets depth 0 through
DepthExhaustedBelowZero(depth) == depth < 0

\* if (depth <= 0)
DepthExhausted(depth) == depth <= 0

\* the background: (1.0-t)*color(1,1,1) + t*color(0.5,0.7,1.0)
sky_color(r) ==
    LET unit_direction == unit_vector(r.dir)
        t == QMul(Q(1, 2), QAdd(unit_direction[2], One))
    IN  VAdd(VScale(QSub(One, t), V(1, 1, 1)),
             VScale(t, <<Q(1, 2), Q(7, 10), One>>))

\* the rays on which world.hit and sky_color are exact
RayInDomain(objs, r) ==
    /\ r.dir # V(0, 0, 0)
    /\ HasSqrt(length_squared(r.dir))
    /\ \A i \in 1..Len(objs) : SphereInDomain(objs[i], r)

RayColorIdle ==
    /\ stack = <<>>
    /\ pc = "idle"
    /\ retval = Black
    /\ queries = [hits |-> 0, scatters |-> 0]
    /\ chain = [depth |-> 0, calls |-> 0]

Top == stack[Len(stack)]
Pop == SubSeq(stack, 1, Len(stack) - 1)

\* the caller invokes ray_color(r, world, depth)
RayColorCall(r, depth) ==
    /\ pc = "idle"
    /\ RayInDomain(objects, r)
    /\ stack' = <<[r |-> r, depth |-> depth]>>
    /\ pc' = "call"
    /\ call' = [op |-> "call", r |-> r, depth |-> depth]
    /\ chain' = [depth |-> depth, calls |-> 1]
    /\ UNCHANGED <<objects, materials, retval, queries, laterVars>>

\* the innermost invocation returns colour c
ReturnColor(c) ==
    /\ stack' = Pop
    /\ pc' = "return"
    /\ retval' = c

\* a variant that recurses with the depth it was given
RecursiveDepthKept(depth) == depth

\* the depth argument of the recursive call: depth-1
RecursiveDepth(depth) == depth - 1

\* a variant that passes the callee's colour on as it is
AttenuateDropped(attenuation, c) == c

\* attenuation * ray_color(scattered, world, depth-1), elementwise
Attenuate(attenuation, c) == VMul(attenuation, c)

\* the random values one scatter call may consume
NoDraw == [none |-> TRUE]

\* lambertian::scatter and metal::scatter call random_in_unit_sphere(),
\* dielectric::scatter does not
SamplesSphere(m) == m.kind \in {"lambertian", "metal"}

\* ray_color from the return of scatter (sc, for the hit rec and the values
\* draw) to its own return or its recursive call; here holds the invocation
AfterScatter(here, rec, draw, sc) ==
    /\ call' = here @@ [path |-> "hit", rec |-> rec,
                        self_in |-> materials[rec.mat_ptr],
                        draw |-> draw, ret |-> sc.ret,
                        attenuation |-> sc.attenuation,
                        scattered |-> sc.scattered]
    /\ IF sc.ret
       THEN /\ RayInDomain(objects, sc.scattered)
            /\ stack' = Append(
                  [stack EXCEPT ![Len(stack)] =
                      Top @@ [attenuation |-> sc.attenuation]],
                  [r |-> sc.scattered,
                   depth |-> RecursiveDepth(here.depth)])
            /\ chain' = [chain EXCEPT !.calls = @ + 1]
            /\ pc' = "call"
            /\ UNCHANGED retval
       ELSE /\ ReturnColor(Black)
            /\ UNCHANGED chain

\* ray_color from its entry to its return, to its recursive call or, in
\* the scatter of a lambertian or a metal, to the loop of
\* random_in_unit_sphere
RayColorBody(draw) ==
    /\ pc = "call"
    /\ UNCHANGED <<objects, materials, laterVars>>
    /\ LET r == Top.r
           depth == Top.depth
           here == [op |-> "ray_color", r |-> r, depth |-> depth,
                    queries_in |-> queries, stack_in |-> stack]
       IN  IF DepthExhausted(depth)
           THEN /\ draw = NoDraw
                /\ ReturnColor(Black)
                /\ call' = here @@ [path |-> "depth"]
                /\ UNCHANGED <<queries, chain>>
           ELSE \E res \in {hittable_list_hit(objects, r, ShadowAcneEps, Infinity,
                                              FreshRecord, FreshRecord)} :
                IF ~res.hit
                THEN /\ draw = NoDraw
                     /\ ReturnColor(sky_color(r))
                     /\ queries' = [queries EXCEPT !.hits = @ + 1]
                     /\ call' = here @@ [path |-> "miss"]
                     /\ UNCHANGED chain
                ELSE /\ queries' = [hits |-> queries.hits + 1,
                                    scatters |-> queries.scatters + 1]
                     /\ IF SamplesSphere(materials[res.rec.mat_ptr])
                        THEN /\ draw = NoDraw
                             /\ pc' = "sample"
                             /\ call' = [op |-> "random_in_unit_sphere",
                                         rec |-> res.rec, queries_in |-> queries,
                                         rejected |-> <<>>]
                             /\ UNCHANGED <<stack, retval, chain>>
                        ELSE /\ "x" \in DOMAIN draw
                             /\ ScatterInDomain(materials[res.rec.mat_ptr], r,
                                                res.rec, draw)
                             /\ \E sc \in {scatter(materials[res.rec.mat_ptr], r,
                                                   res.rec, draw)} :
                                   AfterScatter(here, res.rec, draw, sc)

\* one turn of the loop of random_in_unit_sphere: p = vec3::random(-1,1) is
\* drawn; with p.length_squared() >= 1 the loop goes on, and the candidate
\* is kept in call.rejected; otherwise p is returned, and scatter and
\* ray_color run on to ray_color's return or recursive call
SphereCandidate(p) ==
    /\ pc = "sample"
    /\ UNCHANGED <<objects, materials, laterVars, queries>>
    /\ IF ~InUnitSphere(p)
       THEN /\ call' = [call EXCEPT !.rejected = p]
            /\ UNCHANGED <<stack, pc, retval, chain>>
       ELSE LET m == materials[call.rec.mat_ptr]
                here == [op |-> "ray_color", r |-> Top.r, depth |-> Top.depth,
                         queries_in |-> call.queries_in, stack_in |-> stack]
            IN  /\ ScatterInDomain(m, Top.r, call.rec, [p |-> p])
                /\ \E sc \in {scatter(m, Top.r, call.rec, [p |-> p])} :
                      AfterScatter(here, call.rec, [p |-> p], sc)

\* return attenuation * ray_color(scattered, world, depth-1), once the
\* recursive call has returned
RayColorResume ==
    /\ pc = "return"
    /\ stack # <<>>
    /\ ReturnColor(Attenuate(Top.attenuation, retval))
    /\ call' = [op |-> "resume", attenuation |-> Top.attenuation, inner |-> retval,
                stack_in |-> stack]
    /\ UNCHANGED <<objects, materials, queries, chain, laterVars>>

---------------------------------------------------------------------------
(* Inputs of the geometry specification.                                   *)

MaxObjects == 3

\* a record some earlier hit has filled
UsedRecord == HitRecord(V(9, 9, 9), V(0, 1, 0), 3, I(9), TRUE)
RecordsIn == {HitRecord(V(0, 0, 0), V(0, 0, 0), 0, I(-7), TRUE), UsedRecord}

Spheres ==
    { Sphere(V(2, 0, 0), I(1), 1),      \* roots 1 and 3 on the x axis
      Sphere(V(4, 0, 0), I(1), 2),      \* touches the first at x = 3
      Sphere(V(8, 0, 0), I(2), 3) }     \* apart from both

Rays ==
    { Ray(V(0, 0, 0), V(1, 0, 0)),
      Ray(V(0, 0, 0), V(2, 0, 0)),      \* not normalized: t is halved
      Ray(V(2, 0, 0), V(1, 0, 0)),      \* starts inside the first sphere
      Ray(V(0, 1, 0), V(1, 0, 0)),      \* grazes the radius-1 spheres
      Ray(V(0, 0, 0), V(-1, 0, 0)),     \* points away from every sphere
      Ray(V(9, 0, 0), V(0, 1, 0)) }     \* starts inside the third, leaves upward

TMins == {Q(1, 1000), I(2), I(4)}
TMaxs == {Infinity, I(3)}

ListInDomain(objs, r) == \A i \in 1..Len(objs) : SphereInDomain(objs[i], r)

---------------------------------------------------------------------------
(* The geometry specification: a list is built with add and clear, and one *)
(* hit query at a time is made on it or on one of its spheres.             *)

Queried == call.op \in {"list_hit", "sphere_hit"}

add(object) ==
    /\ Len(objects) < MaxObjects
    /\ objects' = Append(objects, object)
    /\ call' = [op |-> "add"]
    /\ UNCHANGED <<materials, rcVars, laterVars>>

clear ==
    /\ objects' = <<>>
    /\ call' = [op |-> "clear"]
    /\ UNCHANGED <<materials, rcVars, laterVars>>

ListHitCall(r, t_min, t_max, h, fresh) ==
    /\ ~Queried
    /\ ListInDomain(objects, r)
    /\ LET res == hittable_list_hit(objects, r, t_min, t_max, h, fresh)
       IN  call' = [op |-> "list_hit", r |-> r, t_min |-> t_min, t_max |-> t_max,
                    rec_in |-> h, ret |-> res.hit, rec |-> res.rec]
    /\ UNCHANGED <<objects, materials, rcVars, laterVars>>

SphereHitCall(i, r, t_min, t_max, h) ==
    /\ ~Queried
    /\ SphereInDomain(objects[i], r)
    /\ LET res == sphere_hit(objects[i], r, t_min, t_max, h)
       IN  call' = [op |-> "sphere_hit", i |-> i, r |-> r, t_min |-> t_min,
                    t_max |-> t_max, rec_in |-> h, self_in |-> objects[i],
                    ret |-> res.hit, rec |-> res.rec]
    /\ UNCHANGED <<objects, materials, rcVars, laterVars>>

InitHit ==
    /\ objects = <<>>
    /\ materials = SceneMaterials
    /\ call = [op |-> "none"]
    /\ RayColorIdle
    /\ LaterIdle

NextHit ==
    \/ \E s \in Spheres : add(s)
    \/ clear
    \/ \E r \in Rays, t_min \in TMins, t_max \in TMaxs, h \in RecordsIn,
          fresh \in FreshRecords :
          ListHitCall(r, t_min, t_max, h, fresh)
    \/ \E i \in 1..Len(objects), r \in Rays, t_min \in TMins, t_max \in TMaxs,
          h \in RecordsIn :
          SphereHitCall(i, r, t_min, t_max, h)

SpecHit == InitHit /\ [][NextHit]_vars

---------------------------------------------------------------------------
(* Claims about hittable_list::hit.                                        *)

\* the t child s accepts in [t_min, t_max] when asked alone: a set of 0 or 1
Accepted(s, r, t_min, t_max) ==
    LET res == sphere_hit(s, r, t_min, t_max, UsedRecord)
    IN  IF res.hit THEN {res.rec.t} ELSE {}

AcceptedByAny(objs, r, t_min, t_max) ==
    UNION { Accepted(objs[i], r, t_min, t_max) : i \in 1..Len(objs) }

QMinOf(S) == CHOOSE t \in S : \A u \in S : QLe(t, u)

InsertionOrders(n) == Permutations(1..n)
Permuted(objs, f) == [i \in 1..Len(objs) |-> objs[f[i]]]

\* what a list query reports: the bool, and rec.t
Outcome(res) == <<res.hit, res.rec.t>>

\* C2: hittable_list::hit returns true iff some child accepts a hit in
\* [t_min, t_max]; rec.t is then the least t any child accepts; and the bool
\* and rec.t are the same for every insertion order of the same children.
C2_NearestOfAll ==
    call.op = "list_hit" =>
        LET acc == AcceptedByAny(objects, call.r, call.t_min, call.t_max)
        IN  /\ call.ret <=> acc # {}
            /\ call.ret => call.rec.t = QMinOf(acc)
            /\ \A f \in InsertionOrders(Len(objects)) :
                   Outcome(hittable_list_hit(Permuted(objects, f), call.r, call.t_min,
                                             call.t_max, call.rec_in, FreshRecord))
                     = <<call.ret, call.rec.t>>

\* three distinct children, two of them hit at different t, and the nearest
\* one was not inserted first
C2_Witness ==
    /\ call.op = "list_hit"
    /\ Len(objects) = 3
    /\ Cardinality({objects[i] : i \in 1..3}) = 3
    /\ call.ret
    /\ Cardinality(AcceptedByAny(objects, call.r, call.t_min, call.t_max)) >= 2
    /\ call.rec.t \notin Accepted(objects[1], call.r, call.t_min, call.t_max)

\* the scan of the first k children, and what child k accepts on its own
Prefix(k) == SubSeq(objects, 1, k)
PrefixHit(k) ==
    hittable_list_hit(Prefix(k), call.r, call.t_min, call.t_max, call.rec_in,
                      HitRecord(V(0, 0, 0), V(0, 0, 0), 0, I(0), FALSE))
ChildHit(k) == sphere_hit(objects[k], call.r, call.t_min, call.t_max, call.rec_in)

\* the children whose accepted t is the one returned
Nearest ==
    { i \in 1..Len(objects) : call.rec.t \in Accepted(objects[i], call.r, call.t_min, call.t_max) }
First(S) == CHOOSE i \in S : \A j \in S : i <= j
Last(S) == CHOOSE i \in S : \A j \in S : j <= i

\* C3 as claimed: a later child replaces the recorded hit only if its t is
\* strictly smaller than closest_so_far, and of several children hit at the
\* same t the record returned is that of the one inserted first.
C3_FirstWinsTies ==
    call.op = "list_hit" =>
        /\ \A k \in 2..Len(objects) :
              (PrefixHit(k - 1).hit /\ PrefixHit(k).rec # PrefixHit(k - 1).rec)
                  => QLt(PrefixHit(k).rec.t, PrefixHit(k - 1).rec.t)
        /\ call.ret => call.rec = ChildHit(First(Nearest)).rec

\* C3 as amended: child k replaces the recorded hit iff it accepts a t that
\* is smaller than or equal to closest_so_far, and of several children hit at
\* the same t the record returned is that of the one inserted last.
C3_LastWinsTies ==
    call.op = "list_hit" =>
        /\ \A k \in 1..Len(objects) :
              LET before == PrefixHit(k - 1)
                  bound == IF before.hit THEN before.rec.t ELSE call.t_max
                  replaces == /\ ChildHit(k).hit
                              /\ QLe(ChildHit(k).rec.t, bound)
              IN  PrefixHit(k) = IF replaces
                                 THEN [hit |-> TRUE, rec |-> ChildHit(k).rec]
                                 ELSE before
        /\ call.ret => call.rec = ChildHit(Last(Nearest)).rec

\* two different children are hit at the same t, the nearest of all
C3_Witness ==
    /\ call.op = "list_hit"
    /\ call.ret
    /\ Cardinality({objects[i] : i \in Nearest}) >= 2
    /\ call.rec.mat_ptr = objects[Last(Nearest)].mat_ptr
    /\ call.rec.mat_ptr # objects[First(Nearest)].mat_ptr

---------------------------------------------------------------------------
(* Claims about sphere::hit.                                               *)

InRange(t, t_min, t_max) == QLe(t_min, t) /\ QLe(t, t_max)

\* C4: with discriminant >= 0 sphere::hit returns true iff one of the two
\* roots lies in [t_min, t_max], and rec.t is then the smaller root if that
\* one lies in the range and the larger root otherwise; with a negative
\* discriminant it returns false.
C4_SmallestRootInRange ==
    call.op = "sphere_hit" =>
        LET s == call.self_in
            r == call.r
        IN  IF QLt(Discriminant(s, r), Zero) THEN ~call.ret
            ELSE LET small == SmallRoot(s, r)
                     large == LargeRoot(s, r)
                 IN  /\ QLe(small, large)
                     /\ call.ret <=> \/ InRange(small, call.t_min, call.t_max)
                                     \/ InRange(large, call.t_min, call.t_max)
                     /\ call.ret =>
                          /\ InRange(call.rec.t, call.t_min, call.t_max)
                          /\ call.rec.t = IF InRange(small, call.t_min, call.t_max)
                                          THEN small ELSE large

\* the smaller root is out of range and the larger, a different one, is taken
C4_Witness ==
    /\ call.op = "sphere_hit"
    /\ call.ret
    /\ call.rec.t = LargeRoot(call.self_in, call.r)
    /\ QLt(SmallRoot(call.self_in, call.r), call.t_min)
    /\ QLt(SmallRoot(call.self_in, call.r), LargeRoot(call.self_in, call.r))

\* C5: when sphere::hit returns false the caller's hit_record is left as it
\* was, field by field; and after every call the sphere is the one it was.
C5_NoHitLeavesRecord ==
    call.op = "sphere_hit" =>
        /\ ~call.ret =>
              /\ call.rec.p = call.rec_in.p
              /\ call.rec.normal = call.rec_in.normal
              /\ call.rec.mat_ptr = call.rec_in.mat_ptr
              /\ call.rec.t = call.rec_in.t
              /\ call.rec.front_face = call.rec_in.front_face
        /\ objects[call.i] = call.self_in

\* a miss with both roots real and out of range, on a record filled before
C5_Witness ==
    /\ call.op = "sphere_hit"
    /\ ~call.ret
    /\ ~QLt(Discriminant(call.self_in, call.r), Zero)
    /\ call.rec_in = UsedRecord
    /\ call.rec = UsedRecord

\* (rec.p - center) / radius
OutwardNormal == VDiv(VSub(call.rec.p, call.self_in.center), call.self_in.radius)

\* C6: after an accepted sphere hit front_face is true iff
\* dot(r.direction, outward_normal) < 0, and rec.normal is outward_normal when
\* front_face is true and its negation otherwise.
C6_FaceNormal ==
    (call.op = "sphere_hit" /\ call.ret) =>
        /\ call.rec.front_face <=> QLt(dot(call.r.dir, OutwardNormal), Zero)
        /\ call.rec.normal = IF call.rec.front_face THEN OutwardNormal
                             ELSE VNeg(OutwardNormal)

\* a ray that starts inside the sphere and hits it from within
C6_Witness ==
    /\ call.op = "sphere_hit"
    /\ call.ret
    /\ QLt(length_squared(VSub(call.r.orig, call.self_in.center)),
           QMul(call.self_in.radius, call.self_in.radius))
    /\ ~call.rec.front_face
    /\ call.rec.normal = VNeg(OutwardNormal)
    /\ call.rec.normal # OutwardNormal

---------------------------------------------------------------------------
(* The material specification: materials are made with the constructors,   *)
(* and one scatter call at a time is made on one of them.                  *)

MaxMaterials == 1

Albedos == { <<Q(1, 2), Q(1, 2), Q(1, 2)>>, <<Q(7, 10), Q(3, 5), Q(1, 2)>> }
\* the f given to metal's constructor
FuzzArgs == {Q(-1, 2), Zero, Q(1, 2), One, Q(3, 2)}
RefractionIndices == {Q(3, 2), Q(4, 3)}

\* candidates vec3::random(-1,1) of the rejection loop; the last two are
\* rejected, one of them on the sphere (length_squared = 1)
CubePoints ==
    { <<Zero, Zero, Q(1, 2)>>, <<Zero, Zero, Q(-1, 2)>>, <<Zero, Zero, Q(-9, 10)>>,
      <<Q(1, 2), Zero, Zero>>, <<Zero, Q(1, 2), Zero>>,
      <<Q(-3, 10), Zero, Q(-2, 5)>>, <<Q(-1, 1), Zero, Zero>>,
      <<Q(9, 10), Q(9, 10), Zero>> }
\* values of random_double()
RandomDoubles == {Zero, Q(1, 32), Q(1, 2)}

\* incoming rays: head-on, head-on and not normalized, oblique, grazing
RaysIn ==
    { Ray(V(0, 0, 2), V(0, 0, -1)), Ray(V(0, 0, 2), V(0, 0, -2)),
      Ray(V(-3, 0, 4), V(3, 0, -4)), Ray(V(-4, 0, 3), V(4, 0, -3)),
      Ray(V(-1, 0, 0), V(1, 0, 0)) }

\* hit records on the plane z = 0 seen from above, either face
RecordsHit == { HitRecord(V(0, 0, 0), V(0, 0, 1), 1, I(1), ff) : ff \in BOOLEAN }
\* normals for lambertian::scatter: exact, tilted, and off the axis by less
\* than, exactly, and more than 1e-8
NormalsHit ==
    { V(0, 0, 1), V(0, 1, 0), <<Q(3, 5), Zero, Q(4, 5)>>,
      <<Q(1, 200000000), Zero, One>>, <<Q(1, 100000000), Zero, One>>,
      <<Q(1, 50000000), Zero, One>> }

make_shared(m) ==
    /\ Len(materials) < MaxMaterials
    /\ materials' = Append(materials, m)
    /\ UNCHANGED <<objects, rcVars, laterVars>>

MakeLambertian(a) ==
    /\ make_shared(lambertian(a))
    /\ call' = [op |-> "lambertian", a |-> a]

MakeMetal(a, f) ==
    /\ make_shared(metal(a, f))
    /\ call' = [op |-> "metal", a |-> a, f |-> f]

MakeDielectric(ir) ==
    /\ make_shared(dielectric(ir))
    /\ call' = [op |-> "dielectric", ir |-> ir]

ScatterCall(i, r_in, h, draw) ==
    /\ call.op # "scatter"
    /\ ScatterInDomain(materials[i], r_in, h, draw)
    /\ LET res == scatter(materials[i], r_in, h, draw)
       IN  call' = [op |-> "scatter", i |-> i, self_in |-> materials[i], r_in |-> r_in,
                    rec_in |-> h, draw |-> draw, ret |-> res.ret,
                    attenuation |-> res.attenuation, scattered |-> res.scattered]
    /\ UNCHANGED <<objects, materials, rcVars, laterVars>>

\* a call of lambertian::scatter that returns: p is the candidate its
\* random_in_unit_sphere() has accepted
LambertianScatterCall(i, r_in, n, p) ==
    /\ materials[i].kind = "lambertian"
    /\ InUnitSphere(p)
    /\ ScatterCall(i, r_in, HitRecord(V(0, 0, 0), n, i, I(1), TRUE), [p |-> p])

\* a call of metal::scatter that returns, p as above
MetalScatterCall(i, r_in, h, p) ==
    /\ materials[i].kind = "metal"
    /\ InUnitSphere(p)
    /\ ScatterCall(i, r_in, h, [p |-> p])

DielectricScatterCall(i, r_in, h, x) ==
    /\ materials[i].kind = "dielectric"
    /\ ScatterCall(i, r_in, h, [x |-> x])

InitMat ==
    /\ objects = <<>>
    /\ materials = <<>>
    /\ call = [op |-> "none"]
    /\ RayColorIdle
    /\ LaterIdle

NextMat ==
    \/ \E a \in Albedos : MakeLambertian(a)
    \/ \E a \in Albedos, f \in FuzzArgs : MakeMetal(a, f)
    \/ \E ir \in RefractionIndices : MakeDielectric(ir)
    \/ \E i \in 1..Len(materials), r_in \in RaysIn, n \in NormalsHit, p \in CubePoints :
          LambertianScatterCall(i, r_in, n, p)
    \/ \E i \in 1..Len(materials), r_in \in RaysIn, h \in RecordsHit, p \in CubePoints :
          MetalScatterCall(i, r_in, h, p)
    \/ \E i \in 1..Len(materials), r_in \in RaysIn, h \in RecordsHit,
          x \in RandomDoubles :
          DielectricScatterCall(i, r_in, h, x)

SpecMat == InitMat /\ [][NextMat]_vars

---------------------------------------------------------------------------
(* Claims about the materials.                                             *)

\* C7 as claimed: whatever f the metal constructor is given, the fuzz it
\* stores lies in [0, 1].
C7_FuzzInUnitInterval ==
    \A i \in 1..Len(materials) :
        materials[i].kind = "metal" =>
            /\ QLe(Zero, materials[i].fuzz)
            /\ QLe(materials[i].fuzz, One)

ScatterOf(kind) == call.op = "scatter" /\ call.self_in.kind = kind

\* the quantities the dielectric claim speaks of, from the call's arguments
UnitDirectionIn == unit_vector(call.r_in.dir)
RefractionRatio ==
    IF call.rec_in.front_face THEN QDiv(One, call.self_in.ir) ELSE call.self_in.ir
CosTheta == QMin(dot(VNeg(UnitDirectionIn), call.rec_in.normal), One)
\* refraction_ratio * sin_theta > 1, squared: both factors are >= 0
TotalInternalReflection ==
    QGt(QMul(QMul(RefractionRatio, RefractionRatio),
             QSub(One, QMul(CosTheta, CosTheta))), One)
Reflects ==
    \/ TotalInternalReflection
    \/ QGt(reflectance(CosTheta, RefractionRatio), call.draw.x)

\* C9: dielectric::scatter returns true with attenuation (1,1,1); the
\* scattered direction is the reflection when refraction_ratio * sin_theta > 1
\* or reflectance exceeds the draw, and the (different) refraction otherwise.
C9_ReflectOrRefract ==
    ScatterOf("dielectric") =>
        /\ call.ret
        /\ call.attenuation = V(1, 1, 1)
        /\ call.scattered.orig = call.rec_in.p
        /\ Reflects =>
              call.scattered.dir = reflect(UnitDirectionIn, call.rec_in.normal)
        /\ ~Reflects =>
              /\ call.scattered.dir =
                     refract(UnitDirectionIn, call.rec_in.normal, RefractionRatio)
              /\ call.scattered.dir # reflect(UnitDirectionIn, call.rec_in.normal)

\* total internal reflection with a draw the reflectance does not exceed
C9_Witness ==
    /\ ScatterOf("dielectric")
    /\ TotalInternalReflection
    /\ ~QGt(reflectance(CosTheta, RefractionRatio), call.draw.x)
    /\ call.scattered.dir = reflect(UnitDirectionIn, call.rec_in.normal)

\* normal + random_unit_vector()
NormalPlusUnit == VAdd(call.rec_in.normal, random_unit_vector(call.draw.p))

\* C10: lambertian::scatter returns true with attenuation = albedo; when the
\* normal is not near zero the scattered direction is normal + u unless that
\* is near zero, and the normal then; it is never near zero.
C10_NeverNearZero ==
    ScatterOf("lambertian") =>
        /\ call.ret
        /\ call.attenuation = call.self_in.albedo
        /\ ~near_zero(call.rec_in.normal) =>
              /\ call.scattered.dir = IF near_zero(NormalPlusUnit)
                                      THEN call.rec_in.normal ELSE NormalPlusUnit
              /\ ~near_zero(call.scattered.dir)

\* the sum is near zero without being zero, and the normal is used
C10_Witness ==
    /\ ScatterOf("lambertian")
    /\ near_zero(NormalPlusUnit)
    /\ NormalPlusUnit # V(0, 0, 0)
    /\ call.scattered.dir = call.rec_in.normal

---------------------------------------------------------------------------
(* The ray_color specification: one evaluation of ray_color on a fixed     *)
(* world, from the caller's call to the final return.                      *)

MaxDepth == 3

\* the scene's materials and a fuzzy metal like random_scene's small spheres
WorldMaterials ==
    SceneMaterials \o << metal(<<Q(1, 2), Q(1, 2), Q(1, 2)>>, Q(1, 4)) >>

\* unit spheres on the axes around the origin: diffuse below, glass above,
\* polished metal to the right, fuzzy metal to the left
World ==
    << Sphere(V(0, -2, 0), I(1), 1),
       Sphere(V(0, 3, 0), I(1), 2),
       Sphere(V(3, 0, 0), I(1), 4),
       Sphere(V(-3, 0, 0), I(1), 5) >>

\* primary rays: along the axes from three points (through the spheres'
\* centres or grazing them), and one oblique ray onto each metal sphere
PrimaryRays ==
    { Ray(o, d) : o \in {V(0, 0, 0), V(0, 1, 0), V(1, 0, 0)},
                  d \in {V(1, 0, 0), V(-1, 0, 0), V(0, 1, 0), V(0, -1, 0)} }
    \cup { Ray(V(0, 5, 0), V(3, -4, 0)), Ray(V(0, 5, 0), V(-3, -4, 0)) }

Draws == {NoDraw} \cup { [x |-> x] : x \in RandomDoubles }

Init ==
    /\ objects = World
    /\ materials = WorldMaterials
    /\ call = [op |-> "none"]
    /\ RayColorIdle
    /\ LaterIdle

Next ==
    \/ \E r \in PrimaryRays, depth \in -1..MaxDepth : RayColorCall(r, depth)
    \/ \E draw \in Draws : RayColorBody(draw)
    \/ \E p \in CubePoints : SphereCandidate(p)
    \/ RayColorResume

Spec == Init /\ [][Next]_vars

---------------------------------------------------------------------------
(* Claims about ray_color.                                                 *)

RayColorRan == call.op = "ray_color"
WouldHit(r) ==
    hittable_list_hit(objects, r, ShadowAcneEps, Infinity, FreshRecord, FreshRecord).hit

\* C1: ray_color(r, world, depth) called with depth <= 0 returns exactly
\* (0,0,0), whether or not the ray would hit an object, and makes no
\* world.hit call and no scatter call on the way.
C1_DepthExhaustedIsBlack ==
    (RayColorRan /\ call.depth <= 0) =>
        /\ pc = "return"
        /\ retval = V(0, 0, 0)
        /\ queries = call.queries_in
        /\ stack = SubSeq(call.stack_in, 1, Len(call.stack_in) - 1)

\* a primary ray that would hit the world, evaluated at depth 0
C1_Witness ==
    /\ RayColorRan
    /\ call.depth = 0
    /\ Len(call.stack_in) = 1
    /\ WouldHit(call.r)
    /\ queries = [hits |-> 0, scatters |-> 0]
    /\ retval = V(0, 0, 0)

MetalScattered == RayColorRan /\ call.path = "hit" /\ call.self_in.kind = "metal"
FuzzedReflection ==
    VAdd(reflect(unit_vector(call.r.dir), call.rec.normal),
         VScale(call.self_in.fuzz, call.draw.p))

\* C8: metal::scatter sets scattered.direction to
\* reflect(unit(r_in.direction), rec.normal) + fuzz * (the sampled point) and
\* returns true iff dot(scattered.direction, rec.normal) > 0; when it
\* returns false, ray_color returns black without a recursive call.
C8_MetalAbsorbsInward ==
    MetalScattered =>
        /\ call.scattered.dir = FuzzedReflection
        /\ call.scattered.orig = call.rec.p
        /\ call.ret <=> QGt(dot(FuzzedReflection, call.rec.normal), Zero)
        /\ ~call.ret =>
              /\ pc = "return"
              /\ retval = V(0, 0, 0)
              /\ stack = SubSeq(call.stack_in, 1, Len(call.stack_in) - 1)

\* the fuzz turns a grazing reflection into the surface: absorbed
C8_Witness ==
    /\ MetalScattered
    /\ QGt(call.self_in.fuzz, Zero)
    /\ QLt(dot(FuzzedReflection, call.rec.normal), Zero)
    /\ ~call.ret
    /\ retval = V(0, 0, 0)

\* an invocation with depth > 0 whose ray has hit the world
HitAtDepth == RayColorRan /\ call.path = "hit"
Resumed == call.op = "resume"
Caller(st) == st[Len(st)]

\* C11: for depth > 0 and a ray that hits the world, a scatter that returns
\* true makes ray_color call itself on the scattered ray with depth-1 and
\* return attenuation times, elementwise, what that call returns; a scatter
\* that returns false makes it return (0,0,0) with no recursive call.
C11_ScatterThenRecurse ==
    /\ HitAtDepth =>
          /\ call.depth > 0
          /\ queries = [hits |-> call.queries_in.hits + 1,
                        scatters |-> call.queries_in.scatters + 1]
          /\ IF call.ret
             THEN /\ pc = "call"
                  /\ Len(stack) = Len(call.stack_in) + 1
                  /\ Top = [r |-> call.scattered, depth |-> call.depth - 1]
                  /\ stack[Len(stack) - 1].attenuation = call.attenuation
                  /\ chain.calls > Len(call.stack_in)
             ELSE /\ pc = "return"
                  /\ retval = V(0, 0, 0)
                  /\ stack = SubSeq(call.stack_in, 1, Len(call.stack_in) - 1)
    /\ Resumed =>
          /\ pc = "return"
          /\ call.attenuation = Caller(call.stack_in).attenuation
          /\ retval = <<QMul(call.attenuation[1], call.inner[1]),
                        QMul(call.attenuation[2], call.inner[2]),
                        QMul(call.attenuation[3], call.inner[3])>>
          /\ stack = SubSeq(call.stack_in, 1, Len(call.stack_in) - 1)

\* a coloured attenuation applied to a sky colour: the product differs from
\* both factors
C11_Witness ==
    /\ Resumed
    /\ call.inner # V(0, 0, 0)
    /\ call.attenuation # V(1, 1, 1)
    /\ retval # call.inner
    /\ retval[1] # retval[2]

---------------------------------------------------------------------------
(* The termination of ray_color: one evaluation again, from the caller's   *)
(* call to the final return, for every world and every outcome of the      *)
(* draws.  What world.hit answers and what metal::scatter returns are      *)
(* inputs here, and so is every candidate that random_in_unit_sphere       *)
(* draws; a frame holds its depth alone, and no colour is computed.  A     *)
(* running evaluation keeps running: its steps are weakly fair.            *)

\* what world.hit(r, 0.001, infinity, rec) answers: no hit, or a hit of an
\* object whose material is of one of the three classes
Answers == {"miss", "lambertian", "metal", "dielectric"}

\* the caller invokes ray_color(r, world, depth)
TermCall(depth) ==
    /\ pc = "idle"
    /\ stack' = <<[depth |-> depth]>>
    /\ pc' = "call"
    /\ call' = [op |-> "call", depth |-> depth]
    /\ chain' = [depth |-> depth, calls |-> 1, retried |-> FALSE]
    /\ UNCHANGED <<objects, materials, retval, queries, laterVars>>

\* the innermost invocation returns
TermReturn ==
    /\ stack' = Pop
    /\ pc' = "return"
    /\ UNCHANGED <<retval, chain>>

\* return attenuation * ray_color(scattered, world, depth-1): the recursive
\* call is made
TermRecurse ==
    /\ stack' = Append(stack, [depth |-> RecursiveDepth(Top.depth)])
    /\ chain' = [chain EXCEPT !.calls = @ + 1]
    /\ pc' = "call"
    /\ UNCHANGED retval

\* if (depth <= 0) return color(0,0,0)
TermExhausted ==
    /\ pc = "call"
    /\ DepthExhausted(Top.depth)
    /\ TermReturn
    /\ call' = [op |-> "ray_color", depth |-> Top.depth, path |-> "depth"]
    /\ UNCHANGED <<objects, materials, queries, laterVars>>

\* ray_color with depth > 0, from world.hit to its return (no hit), to its
\* recursive call (dielectric::scatter returns true) or to the loop of
\* random_in_unit_sphere (in the scatter of a lambertian or a metal)
TermBody(answer) ==
    /\ pc = "call"
    /\ ~DepthExhausted(Top.depth)
    /\ UNCHANGED <<objects, materials, laterVars>>
    /\ IF answer = "miss"
       THEN /\ TermReturn
            /\ queries' = [queries EXCEPT !.hits = @ + 1]
            /\ call' = [op |-> "ray_color", depth |-> Top.depth, path |-> "miss"]
       ELSE /\ queries' = [hits |-> queries.hits + 1,
                           scatters |-> queries.scatters + 1]
            /\ IF SamplesSphere([kind |-> answer])
               THEN /\ pc' = "sample"
                    /\ call' = [op |-> "random_in_unit_sphere", kind |-> answer,
                                rejected |-> <<>>]
                    /\ UNCHANGED <<stack, retval, chain>>
               ELSE /\ TermRecurse
                    /\ call' = [op |-> "ray_color", depth |-> Top.depth,
                                path |-> "hit", kind |-> answer, ret |-> TRUE]

\* the candidates with p.length_squared() >= 1
Rejected == { p \in CubePoints : ~InUnitSphere(p) }

\* one turn of the loop of random_in_unit_sphere: with
\* p.length_squared() >= 1 the loop goes on; otherwise p is returned, and
\* scatter returns ret: true in lambertian::scatter, either in metal::scatter
TermCandidate(p, ret) ==
    /\ pc = "sample"
    /\ UNCHANGED <<objects, materials, queries, laterVars>>
    /\ IF p \in Rejected
       THEN /\ call' = [call EXCEPT !.rejected = p]
            /\ chain' = [chain EXCEPT !.retried = TRUE]
            /\ UNCHANGED <<stack, pc, retval>>
       ELSE /\ call.kind = "lambertian" => ret
            /\ call' = [op |-> "ray_color", depth |-> Top.depth, path |-> "hit",
                        kind |-> call.kind, ret |-> ret]
            /\ IF ret THEN TermRecurse ELSE TermReturn

\* the recursive call has returned: its caller returns
TermResume ==
    /\ pc = "return"
    /\ stack # <<>>
    /\ TermReturn
    /\ call' = [op |-> "resume", depth |-> Top.depth]
    /\ UNCHANGED <<objects, materials, queries, laterVars>>

NextTerm ==
    \/ \E depth \in -1..MaxDepth : TermCall(depth)
    \/ TermExhausted
    \/ \E answer \in Answers : TermBody(answer)
    \/ \E p \in CubePoints, ret \in BOOLEAN : TermCandidate(p, ret)
    \/ TermResume

SpecTerm == Init /\ [][NextTerm]_vars /\ WF_vars(NextTerm)

---------------------------------------------------------------------------
(* Claims about the termination of ray_color.                              *)

\* the outermost invocation has returned
Ended == pc = "return" /\ stack = <<>>

\* for depth >= 0 the call ray_color(r, world, depth) has led to at most
\* depth + 1 invocations, nested at most depth + 1 deep, to at most depth
\* world.hit queries and at most depth scatter calls, and each recursive
\* call has the depth of its caller minus 1
DepthBoundsWork ==
    (pc # "idle" /\ chain.depth >= 0) =>
        /\ chain.calls <= chain.depth + 1
        /\ Len(stack) <= chain.calls
        /\ queries.hits <= chain.depth
        /\ queries.scatters <= chain.depth
        /\ queries.scatters <= queries.hits
        /\ stack # <<>> => stack[1].depth = chain.depth
        /\ \A k \in 1..Len(stack) - 1 : stack[k + 1].depth = stack[k].depth - 1
        /\ \A k \in 1..Len(stack) : stack[k].depth >= 0

\* C15 as claimed: for every depth >= 0, every world and every outcome of
\* the random draws, ray_color(r, world, depth) terminates, within the
\* bounds on invocations, world.hit queries and scatter calls.
C15_AlwaysEnds == []DepthBoundsWork /\ <>Ended

\* C15, amended: the bounds hold at every moment of every evaluation, for
\* every world and every outcome of the draws, and the evaluation ends
\* unless it stays for ever in the loop of random_in_unit_sphere, every
\* candidate drawn from some moment on lying outside the unit sphere.
C15_EndsUnlessSampling ==
    []DepthBoundsWork /\ (<>Ended \/ <>[](pc = "sample"))

\* the bounds are attained by an evaluation that has ended: depth + 1
\* invocations, depth queries and depth scatter calls, a candidate of
\* random_in_unit_sphere rejected on the way
C15_Witness ==
    /\ Ended
    /\ chain.depth = MaxDepth
    /\ chain.calls = chain.depth + 1
    /\ queries = [hits |-> chain.depth, scatters |-> chain.depth]
    /\ chain.retried

---------------------------------------------------------------------------
(* The random numbers, drawn from rand().                                  *)

\* RAND_MAX + 1.0: 2^31
RandMaxPlusOne == [s |-> 0, m |-> <<0, 0, 0, 0, 1>>, e |-> -21]

\* random_double() in generator state g: the value and the state it leaves
random_double(g) ==
    Let([v \in {rand(g)} |->
        [x |-> DDiv(DFromInt(v.x), RandMaxPlusOne), rng |-> v.rng]])

\* random_double(min, max): min + (max-min)*random_double()
random_double_in(min, max, g) ==
    Let([d \in {random_double(g)} |->
        [x |-> DAdd(min, DMul(DSub(max, min), d.x)), rng |-> d.rng]])

\* vec3::random(min, max): the language leaves the order of the three calls
\* open, and the build evaluates the arguments of the constructor from the
\* last to the first, so that the first value drawn becomes z
vec3_random(min, max, g) ==
    Let([c \in {random_double_in(min, max, g)} |->
    Let([b \in {random_double_in(min, max, c.rng)} |->
    Let([a \in {random_double_in(min, max, b.rng)} |->
        [p |-> <<a.x, b.x, c.x>>, rng |-> a.rng]])])])

\* random_in_unit_sphere(): candidates are drawn until one lies inside;
\* calls is the number of calls of rand() that took
RECURSIVE random_in_unit_sphere(_)
random_in_unit_sphere(g) ==
    Let([cand \in {vec3_random(DFromInt(-1), DFromInt(1), g)} |->
        IF DLt(Dlength_squared(cand.p), DOne)
        THEN [p |-> cand.p, rng |-> cand.rng, calls |-> 3]
        ELSE Let([more \in {random_in_unit_sphere(cand.rng)} |->
                 [p |-> more.p, rng |-> more.rng, calls |-> more.calls + 3]])])

\* random_unit_vector(): unit_vector(random_in_unit_sphere())
Drandom_unit_vector(g) ==
    Let([s \in {random_in_unit_sphere(g)} |->
        [p |-> Dunit_vector(s.p), rng |-> s.rng, calls |-> s.calls]])

\* random_in_unit_disk(): vec3(random_double(-1,1), random_double(-1,1), 0),
\* the second argument drawn before the first, until the point lies inside
RECURSIVE random_in_unit_disk(_)
random_in_unit_disk(g) ==
    Let([y \in {random_double_in(DFromInt(-1), DFromInt(1), g)} |->
    Let([x \in {random_double_in(DFromInt(-1), DFromInt(1), y.rng)} |->
    Let([p \in {<<x.x, y.x, DZero>>} |->
        IF DLt(Dlength_squared(p), DOne)
        THEN [p |-> p, rng |-> x.rng, calls |-> 2]
        ELSE Let([more \in {random_in_unit_disk(x.rng)} |->
                 [p |-> more.p, rng |-> more.rng, calls |-> more.calls + 2]])])])])

---------------------------------------------------------------------------
(* sphere::hit, hittable_list::hit, the materials and ray_color in         *)
(* doubles, each as the definitions above have it in exact numbers.        *)

\* std::numeric_limits<double>::infinity(): above every other double
DInfinity == [s |-> 0, m |-> <<0, 0, 0, 0, 2>>, e |-> 971]

\* hit_record::set_face_normal
Dset_face_normal(h, r, a) ==
    Let([outward_normal \in {a} |->
    Let([front_face \in {DLt(Ddot(r.dir, outward_normal), DZero)} |->
        [h EXCEPT !.front_face = front_face,
                  !.normal = IF front_face THEN outward_normal
                             ELSE DVNeg(outward_normal)]])])

\* sphere::hit from its first return on: the root in range, if any, and the
\* record filled in for it
DSphereRoot(s, r, t_min, t_max, rec, a, half_b, discriminant) ==
    LET out(t) == DLt(t, t_min) \/ DGt(t, t_max)
        filled(root) ==
            Let([p \in {Dat(r, root)} |->
                [hit |-> TRUE,
                 rec |-> Dset_face_normal(
                            [rec EXCEPT !.t = root, !.p = p, !.mat_ptr = s.mat_ptr],
                            r, DVDiv(DVSub(p, s.center), s.radius))]])
    IN  Let([sqrtd \in {DSqrt(discriminant)} |->
        Let([root \in {DDiv(DSub(DNeg(half_b), sqrtd), a)} |->
            IF ~out(root) THEN filled(root)
            ELSE Let([root2 \in {DDiv(DAdd(DNeg(half_b), sqrtd), a)} |->
                     IF out(root2) THEN [hit |-> FALSE, rec |-> rec]
                     ELSE filled(root2)])])])

\* sphere::hit: whether the ray hits, and rec as the call leaves it
Dsphere_hit(s, r, t_min, t_max, rec) ==
    Let([oc \in {DVSub(r.orig, s.center)} |->
    Let([a \in {Dlength_squared(r.dir)}, half_b \in {Ddot(oc, r.dir)},
         c \in {DSub(Dlength_squared(oc), DMul(s.radius, s.radius))} |->
    Let([discriminant \in {DSub(DMul(half_b, half_b), DMul(a, c))} |->
        IF DLt(discriminant, DZero) THEN [hit |-> FALSE, rec |-> rec]
        ELSE DSphereRoot(s, r, t_min, t_max, rec, a, half_b, discriminant)])])])

\* hittable_list::hit from object i on: closest_so_far shrinks to the t of
\* every object hit, and rec takes its record
RECURSIVE DListScan(_, _, _, _, _, _, _)
DListScan(objs, i, r, t_min, closest_so_far, hit_anything, rec) ==
    IF i > Len(objs) THEN [hit |-> hit_anything, rec |-> rec]
    ELSE Let([res \in {Dsphere_hit(objs[i], r, t_min, closest_so_far, rec)} |->
             IF res.hit
             THEN DListScan(objs, i + 1, r, t_min, res.rec.t, TRUE, res.rec)
             ELSE DListScan(objs, i + 1, r, t_min, closest_so_far, hit_anything, rec)])

Dhittable_list_hit(objs, r, t_min, t_max, rec) ==
    DListScan(objs, 1, r, t_min, t_max, FALSE, rec)

\* the three materials, their fields doubles
Dlambertian(a) == [kind |-> "lambertian", albedo |-> a]
Dmetal(a, f) ==
    [kind |-> "metal", albedo |-> a, fuzz |-> IF DLt(f, DOne) THEN f ELSE DOne]
Ddielectric(index_of_refraction) == [kind |-> "dielectric", ir |-> index_of_refraction]

\* lambertian::scatter in generator state g: what it returns and leaves in
\* its out-parameters, the state of rand() after it and its calls of rand()
Dlambertian_scatter(m, r_in, rec, g) ==
    Let([ruv \in {Drandom_unit_vector(g)} |->
    Let([scatter_direction \in {DVAdd(rec.normal, ruv.p)} |->
        [ret |-> TRUE, attenuation |-> m.albedo,
         scattered |-> Ray(rec.p, IF Dnear_zero(scatter_direction) THEN rec.normal
                                  ELSE scatter_direction),
         rng |-> ruv.rng, calls |-> ruv.calls]])])

\* metal::scatter
Dmetal_scatter(m, r_in, rec, g) ==
    Let([reflected \in {Dreflect(Dunit_vector(r_in.dir), rec.normal)} |->
    Let([s \in {random_in_unit_sphere(g)} |->
    Let([direction \in {DVAdd(reflected, DVScale(m.fuzz, s.p))} |->
        [ret |-> DGt(Ddot(direction, rec.normal), DZero), attenuation |-> m.albedo,
         scattered |-> Ray(rec.p, direction),
         rng |-> s.rng, calls |-> s.calls]])])])

\* dielectric::reflectance, Schlick's approximation
Dreflectance(cosine, ref_idx) ==
    Let([r \in {DDiv(DSub(DOne, ref_idx), DAdd(DOne, ref_idx))} |->
    Let([r0 \in {DMul(r, r)} |->
        DAdd(r0, DMul(DSub(DOne, r0), pow(DSub(DOne, cosine), DFromInt(5))))])])

\* dielectric::scatter: rand() is called unless the ray cannot refract
Ddielectric_scatter(m, r_in, rec, g) ==
    Let([refraction_ratio \in {IF rec.front_face THEN DDiv(DOne, m.ir) ELSE m.ir},
          unit_direction \in {Dunit_vector(r_in.dir)}
         |->
    Let([cos_theta \in {Dfmin(Ddot(DVNeg(unit_direction), rec.normal), DOne)} |->
    Let([sin_theta \in {DSqrt(DSub(DOne, DMul(cos_theta, cos_theta)))} |->
        IF DGt(DMul(refraction_ratio, sin_theta), DOne)
        THEN [ret |-> TRUE, attenuation |-> DWhite,
              scattered |-> Ray(rec.p, Dreflect(unit_direction, rec.normal)),
              rng |-> g, calls |-> 0]
        ELSE Let([d \in {random_double(g)} |->
                 [ret |-> TRUE, attenuation |-> DWhite,
                  scattered |->
                      Ray(rec.p,
                          IF DGt(Dreflectance(cos_theta, refraction_ratio), d.x)
                          THEN Dreflect(unit_direction, rec.normal)
                          ELSE Drefract(unit_direction, rec.normal, refraction_ratio)),
                  rng |-> d.rng, calls |-> 1]])])])])

\* rec.mat_ptr->scatter
Dscatter(m, r_in, rec, g) ==
    CASE m.kind = "lambertian" -> Dlambertian_scatter(m, r_in, rec, g)
      [] m.kind = "metal" -> Dmetal_scatter(m, r_in, rec, g)
      [] m.kind = "dielectric" -> Ddielectric_scatter(m, r_in, rec, g)

\* the background: (1.0-t)*color(1,1,1) + t*color(0.5,0.7,1.0)
Dsky_color(r) ==
    Let([unit_direction \in {Dunit_vector(r.dir)} |->
    Let([t \in {DMul(DHalf, DAdd(unit_direction[2], DOne))} |->
        DVAdd(DVScale(DSub(DOne, t), DWhite),
              DVScale(t, <<DHalf, D(7, 10), DOne>>))])])

\* the attenuation is lost
ray_color_scaledDropped(attenuation, c) == c

\* return attenuation * ray_color(scattered, world, depth-1)
ray_color_scaled(attenuation, c) == DVMul(attenuation, c)

\* hit_record rec of ray_color: vec3() is (0,0,0)
DFreshRecord == HitRecord(DBlack, DBlack, 0, DZero, FALSE)

\* ray_color(r, world, depth) run from generator state g to its end: the
\* colour it returns, the state of rand() it leaves and the calls of rand()
\* it made
RECURSIVE ray_color(_, _, _, _, _)
ray_color(objs, mats, r, depth, g) ==
    IF DepthExhausted(depth) THEN [c |-> DBlack, rng |-> g, drawn |-> 0]
    ELSE Let([res \in {Dhittable_list_hit(objs, r, D(1, 1000), DInfinity, DFreshRecord)}
             |->
        IF ~res.hit THEN [c |-> Dsky_color(r), rng |-> g, drawn |-> 0]
        ELSE Let([sc \in {Dscatter(mats[res.rec.mat_ptr], r, res.rec, g)} |->
            IF ~sc.ret THEN [c |-> DBlack, rng |-> sc.rng, drawn |-> sc.calls]
            ELSE Let([sub \in {ray_color(objs, mats, sc.scattered, RecursiveDepth(depth), sc.rng)}
                     |->
                    [c |-> ray_color_scaled(sc.attenuation, sub.c),
                     rng |-> sub.rng, drawn |-> sc.calls + sub.drawn]])])])

---------------------------------------------------------------------------
(* main: random_scene, the camera, the header, then the loops over j, i    *)
(* and s.  random_scene draws the small spheres from rand(), and every     *)
(* sample runs ray_color to its end on the state of rand() that            *)
(* random_scene and the samples before it have left.                       *)

\* const auto aspect_ratio = 16.0 / 9.0
aspect_ratio == DDiv(DFromInt(16), DFromInt(9))
image_width == 8
\* static_cast<int>(image_width / aspect_ratio)
image_height == DToInt(DDiv(DFromInt(image_width), aspect_ratio))
samples_per_pixel == 2

\* random_scene's loops run a and b from -11 to 10; here they run from
\* -GridHalf to GridHalf - 1
GridHalf == 1

\* vec3::random(): the first value drawn becomes z, as in random(min, max)
vec3_random01(g) ==
    Let([c \in {random_double(g)} |->
    Let([b \in {random_double(c.rng)} |->
    Let([a \in {random_double(b.rng)} |->
        [p |-> <<a.x, b.x, c.x>>, rng |-> a.rng]])])])

\* random_scene: the material of a small sphere, chosen by choose_mat, and
\* the state of rand() that making it leaves.  Of the two color::random()
\* of the diffuse albedo the build calls the right one first
sphere_material(choose_mat, g) ==
    IF DLt(choose_mat, D(4, 5))
    THEN Let([right \in {vec3_random01(g)} |->
         Let([left \in {vec3_random01(right.rng)} |->
             [m |-> Dlambertian(DVMul(left.p, right.p)), rng |-> left.rng]])])
    ELSE IF DLt(choose_mat, D(19, 20))
    THEN Let([albedo \in {vec3_random(DHalf, DOne, g)} |->
         Let([fuzz \in {random_double_in(DZero, DHalf, albedo.rng)} |->
             [m |-> Dmetal(albedo.p, fuzz.x), rng |-> fuzz.rng]])])
    ELSE [m |-> Ddielectric(D(3, 2)), rng |-> g]

\* the loop variables of random_scene once the cell (a, b) is done: b++,
\* then a++ with b = -GridHalf
NextCell(a, b) ==
    IF b + 1 < GridHalf THEN [pc |-> "cell", a |-> a, b |-> b + 1]
    ELSE IF a + 1 < GridHalf THEN [pc |-> "cell", a |-> a + 1, b |-> 0 - GridHalf]
    ELSE [pc |-> "large", a |-> a + 1, b |-> GridHalf]

\* random_scene up to its loops: the world is empty, then the ground is added
AddGround ==
    /\ scene.pc = "start"
    /\ materials' = <<Dlambertian(<<DHalf, DHalf, DHalf>>)>>
    /\ objects' = <<Sphere(DVec(0, -1000, 0), DFromInt(1000), 1)>>
    /\ scene' = IF 0 - GridHalf < GridHalf THEN NextCell(0 - GridHalf, 0 - GridHalf - 1)
                ELSE [pc |-> "large", a |-> 0 - GridHalf, b |-> 0]
    /\ UNCHANGED <<call, rcVars, rng, cout, render, trace, loopVars>>

\* one turn of the loop over b: choose_mat and the centre are drawn (of the
\* centre the build draws z first), and a sphere of radius 0.2 is added
\* unless its centre is within 0.9 of (4, 0.2, 0)
AddSmallSphere ==
    /\ scene.pc = "cell"
    /\ \E choose_mat \in {random_double(rng)} :
       \E z \in {random_double(choose_mat.rng)} :
       \E x \in {random_double(z.rng)} :
       \E center \in {<<DAdd(DFromInt(scene.a), DMul(D(9, 10), x.x)), D(1, 5),
                        DAdd(DFromInt(scene.b), DMul(D(9, 10), z.x))>>} :
          IF DGt(Dlength(DVSub(center, <<DFromInt(4), D(1, 5), DZero>>)), D(9, 10))
          THEN \E made \in {sphere_material(choose_mat.x, x.rng)} :
                  /\ materials' = Append(materials, made.m)
                  /\ objects' = Append(objects,
                                       Sphere(center, D(1, 5), Len(materials) + 1))
                  /\ rng' = made.rng
          ELSE /\ rng' = x.rng
               /\ UNCHANGED <<objects, materials>>
    /\ scene' = NextCell(scene.a, scene.b)
    /\ UNCHANGED <<call, rcVars, cout, render, trace, loopVars>>

\* random_scene after its loops: the three large spheres, and the world is
\* returned to main
AddLargeSpheres ==
    /\ scene.pc = "large"
    /\ materials' = materials \o << Ddielectric(D(3, 2)),
                                    Dlambertian(<<D(2, 5), D(1, 5), D(1, 10)>>),
                                    Dmetal(<<D(7, 10), D(3, 5), DHalf>>, DZero) >>
    /\ objects' = objects \o << Sphere(DVec(0, 1, 0), DOne, Len(materials) + 1),
                                Sphere(DVec(-4, 1, 0), DOne, Len(materials) + 2),
                                Sphere(DVec(4, 1, 0), DOne, Len(materials) + 3) >>
    /\ scene' = [scene EXCEPT !.pc = "done"]
    /\ UNCHANGED <<call, rcVars, rng, cout, render, trace, loopVars>>

\* const double pi = 3.1415926535897932385: the double 0x400921FB54442D18
pi == [s |-> 0, m |-> <<3352, 545, 7893, 4675, 1>>, e |-> -51]

\* degrees * pi / 180.0
degrees_to_radians(degrees) == DDiv(DMul(degrees, pi), DFromInt(180))

\* tan of the C library, for the one angle main's camera takes it of:
\* tan(0.17453292519943295) = 0.17632698070846498
tan(x) ==
    CASE x = [s |-> 0, m |-> <<1159, 5946, 1554, 3246, 1>>, e |-> -55] ->
            [s |-> 0, m |-> <<3004, 7726, 6266, 3363, 1>>, e |-> -55]

\* camera::camera
camera(lookfrom, lookat, vup, vfov, aspect, aperture, focus_dist) ==
    Let([h \in {tan(DDiv(degrees_to_radians(vfov), DTwo))} |->
    Let([viewport_height \in {DMul(DTwo, h)} |->
    Let([viewport_width \in {DMul(aspect, viewport_height)} |->
    Let([w \in {Dunit_vector(DVSub(lookfrom, lookat))} |->
    Let([u \in {Dunit_vector(Dcross(vup, w))} |->
    Let([v \in {Dcross(w, u)} |->
    Let([horizontal \in {DVScale(DMul(focus_dist, viewport_width), u)},
         vertical \in {DVScale(DMul(focus_dist, viewport_height), v)} |->
        [origin |-> lookfrom,
         lower_left_corner |->
             DVSub(DVSub(DVSub(lookfrom, DVDiv(horizontal, DTwo)),
                         DVDiv(vertical, DTwo)),
                   DVScale(focus_dist, w)),
         horizontal |-> horizontal, vertical |-> vertical,
         u |-> u, v |-> v, w |-> w,
         lens_radius |-> DDiv(aperture, DTwo)]])])])])])])])

\* camera cam(lookfrom, lookat, vup, 20, aspect_ratio, aperture, dist_to_focus)
\* with lookfrom(13,2,3), lookat(0,0,0), vup(0,1,0), aperture 0.1 and
\* dist_to_focus 10.0
cam ==
    camera(DVec(13, 2, 3), DVec(0, 0, 0), DVec(0, 1, 0), DFromInt(20), aspect_ratio,
           D(1, 10), DFromInt(10))

\* camera::get_ray(s, t) in generator state g: the ray and the state the
\* point on the lens leaves
get_ray(c, s, t, g) ==
    Let([disk \in {random_in_unit_disk(g)} |->
    Let([rd \in {DVScale(c.lens_radius, disk.p)} |->
    Let([offset \in {DVAdd(DVScale(rd[1], c.u), DVScale(rd[2], c.v))} |->
        [r |-> Ray(DVAdd(c.origin, offset),
                   DVSub(DVSub(DVAdd(DVAdd(c.lower_left_corner,
                                           DVScale(s, c.horizontal)),
                                     DVScale(t, c.vertical)),
                               c.origin),
                         offset)),
         rng |-> disk.rng]])])])

\* clamp that lets large values through
clampLowerOnly(x, min, max) ==
    IF DLt(x, min) THEN min ELSE x

\* clamp(x, min, max)
clamp(x, min, max) ==
    IF DLt(x, min) THEN min
    ELSE IF DGt(x, max) THEN max
    ELSE x

\* static_cast<int>(256 * clamp(r, 0.0, 0.999)) for r = sqrt(scale * r)
channel(scale, x) ==
    Let([r \in {DSqrt(DMul(scale, x))} |->
        DToInt(DMul(DFromInt(256), clamp(r, DZero, D(999, 1000))))])

\* the three numbers main writes for a pixel whose samples add up to pixel_color
write_color(pixel_color, samples) ==
    Let([sum \in {pixel_color}, scale \in {DDiv(DOne, DFromInt(samples))} |->
        << channel(scale, sum[1]), channel(scale, sum[2]), channel(scale, sum[3]) >>])

\* std::cout << "P3\n" << image_width << ' ' << image_height << "\n255\n"
Header == << <<"P3">>, <<image_width, image_height>>, <<255>> >>

\* the loop variables once pixel (i, j) is done: ++i, then --j with i = 0
NextPixel(i, j) ==
    IF i + 1 < image_width
    THEN [pc |-> IF samples_per_pixel > 0 THEN "sample" ELSE "write",
          j |-> j, i |-> i + 1, s |-> 0, pixel_color |-> DBlack]
    ELSE IF j - 1 >= 0
    THEN [pc |-> IF samples_per_pixel > 0 THEN "sample" ELSE "write",
          j |-> j - 1, i |-> 0, s |-> 0, pixel_color |-> DBlack]
    ELSE [pc |-> "done", j |-> j - 1, i |-> image_width, s |-> 0,
          pixel_color |-> DBlack]

\* main from the return of random_scene to the first pixel: the header is
\* written, j = image_height - 1
WriteHeader ==
    /\ scene.pc = "done"
    /\ render.pc = "start"
    /\ cout' = cout \o Header
    /\ render' = IF image_height - 1 >= 0 /\ image_width > 0
                 THEN NextPixel(-1, image_height - 1)
                 ELSE [render EXCEPT !.pc = "done", !.j = image_height - 1]
    /\ UNCHANGED <<objects, materials, call, rcVars, rng, scene, trace, loopVars>>

\* one turn of the loop over s: u, v, get_ray, pixel_color += ray_color.
\* The trace keeps, with the colour, the ray, the state of rand() at the
\* call of ray_color and the calls of rand() ray_color made.
TakeSample ==
    /\ render.pc = "sample"
    /\ render.s < samples_per_pixel
    /\ \E du \in {random_double(rng)} :
       \E dv \in {random_double(du.rng)} :
       \E u \in {DDiv(DAdd(DFromInt(render.i), du.x), DFromInt(image_width - 1))} :
       \E v \in {DDiv(DAdd(DFromInt(render.j), dv.x), DFromInt(image_height - 1))} :
       \E lens \in {get_ray(cam, u, v, dv.rng)} :
       \E res \in {ray_color(objects, materials, lens.r, MaxDepth, lens.rng)} :
          /\ render' = [render EXCEPT
                           !.pixel_color = DVAdd(@, res.c),
                           !.s = @ + 1,
                           !.pc = IF render.s + 1 < samples_per_pixel
                                  THEN "sample" ELSE "write"]
          /\ trace' = Append(trace, [e |-> "sample", i |-> render.i, j |-> render.j,
                                     s |-> render.s, c |-> res.c, r |-> lens.r,
                                     rng_in |-> lens.rng, drawn |-> res.drawn])
          /\ rng' = res.rng
    /\ UNCHANGED <<objects, materials, call, rcVars, scene, cout, loopVars>>

\* after the loop over s: the pixel is scaled, gamma-corrected and written
WritePixel ==
    /\ render.pc = "write"
    /\ \E rgb \in {write_color(render.pixel_color, samples_per_pixel)} :
          /\ cout' = Append(cout, rgb)
          /\ trace' = Append(trace, [e |-> "write", i |-> render.i, j |-> render.j,
                                     rgb |-> rgb])
    /\ render' = NextPixel(render.i, render.j)
    /\ UNCHANGED <<objects, materials, call, rcVars, rng, scene, loopVars>>

\* main has not started: the world is empty and rand() is in its first state
InitRender ==
    /\ objects = <<>>
    /\ materials = <<>>
    /\ call = [op |-> "none"]
    /\ RayColorIdle
    /\ rng = RandStart
    /\ RenderIdle
    /\ LoopIdle

NextRender ==
    \/ AddGround
    \/ AddSmallSphere
    \/ AddLargeSpheres
    \/ WriteHeader
    \/ TakeSample
    \/ WritePixel

SpecRender == InitRender /\ [][NextRender]_vars

---------------------------------------------------------------------------
(* Claims about the render loop.                                           *)

\* the samples of the trace
Samples == { k \in 1..Len(trace) : trace[k].e = "sample" }

\* the samples whose ray_color has read and advanced the state of rand()
UsersOfRand == { k \in Samples : trace[k].drawn > 0 }

\* the colour the ray_color evaluation of trace[k] returns when it is the
\* first that runs: on the state of rand() that no evaluation has advanced
Alone(k) ==
    ray_color(objects, materials, trace[k].r, MaxDepth,
              trace[CHOOSE f \in Samples : \A o \in Samples : f <= o].rng_in).c

\* C12 as claimed: the ray_color evaluations of a run touch no state that
\* another of them writes, and one that runs after others have run returns
\* the colour it returns when it is run alone.
C12_EvaluationsIndependent ==
    /\ Cardinality(UsersOfRand) <= 1
    /\ (/\ trace # <<>>
        /\ trace[Len(trace)].e = "sample"
        /\ \E o \in UsersOfRand : o < Len(trace)) =>
          trace[Len(trace)].c = Alone(Len(trace))

\* the pixel written k-th: rows from image_height - 1 down, columns from 0 up
PixelAt(k) ==
    [i |-> (k - 1) % image_width,
     j |-> image_height - 1 - ((k - 1) \div image_width)]

\* the sum of the colours of the samples trace[from..to], added up in order
RECURSIVE SampleSum(_, _)
SampleSum(from, to) ==
    IF from > to THEN DBlack
    ELSE DVAdd(SampleSum(from, to - 1), trace[to].c)

\* C13: the header comes first; the pixels follow in row-major order, rows
\* from j = image_height - 1 down to 0 and columns from 0 up, exactly
\* image_width * image_height of them once main is done; the triple of a
\* pixel is written after its samples_per_pixel samples, from their sum, and
\* before any sample of the next pixel; every channel is an integer in 0..255.
C13_RenderOrder ==
    /\ (cout # <<>> \/ trace # <<>> \/ render.pc # "start") =>
          /\ Len(cout) >= 3
          /\ SubSeq(cout, 1, 3) = Header
    /\ cout # <<>> =>
          /\ Len(cout) <= 3 + image_width * image_height
          /\ Len(cout) - 3 = Len(trace) \div (samples_per_pixel + 1)
    /\ render.pc = "done" => Len(cout) = 3 + image_width * image_height
    /\ \A m \in 1..Len(trace) :
          LET b == (m - 1) \div (samples_per_pixel + 1)
              o == (m - 1) % (samples_per_pixel + 1)
              px == PixelAt(b + 1)
              ev == trace[m]
          IN  /\ ev.i = px.i
              /\ ev.j = px.j
              /\ IF o < samples_per_pixel
                 THEN ev.e = "sample" /\ ev.s = o
                 ELSE /\ ev.e = "write"
                      /\ cout[3 + b + 1] = ev.rgb
                      /\ ev.rgb = write_color(SampleSum(m - samples_per_pixel, m - 1),
                                              samples_per_pixel)
    /\ \A k \in 4..Len(cout) : \A ch \in 1..3 : cout[k][ch] \in 0..255

\* main is done, and the image has a channel at the top of the range and one
\* below it
C13_Witness ==
    /\ render.pc = "done"
    /\ Len(cout) = 3 + image_width * image_height
    /\ \E k \in 4..Len(cout) : cout[k][3] = 255
    /\ \E k \in 4..Len(cout) : cout[k][1] \in 1..254

---------------------------------------------------------------------------
(* ray_color in doubles along one path, and beside it the explicit loop    *)
(* that accumulates the attenuation product.  Both are given the same ray, *)
(* world, depth and draws, so both meet the same outcomes of world.hit and *)
(* scatter, bounce after bounce; the outcomes are the inputs here.         *)

\* the loop before its first bounce: throughput (1,1,1)
LoopStart(depth) ==
    [pc |-> "loop", depth |-> depth, throughput |-> DWhite, result |-> DBlack]
\* the loop at a bounce: throughput times the bounce's attenuation
LoopBounce(it, attenuation) ==
    [it EXCEPT !.throughput = DVMul(@, attenuation), !.depth = @ - 1]
\* the loop at a miss: throughput times the sky-gradient value
LoopMiss(it, sky) == [it EXCEPT !.pc = "done", !.result = DVMul(it.throughput, sky)]
\* the loop at an absorption or with no depth left: (0,0,0)
LoopBlack(it) == [it EXCEPT !.pc = "done", !.result = DBlack]

\* the albedos of random_scene's ground and three large spheres
Attenuations ==
    { <<DHalf, DHalf, DHalf>>,
      DWhite,
      <<D(2, 5), D(1, 5), D(1, 10)>>,
      <<D(7, 10), D(3, 5), D(1, 2)>> }

\* the sky gradient for a ray that points down, level and up
Skies ==
    { DWhite,
      <<D(3, 4), D(17, 20), D(1, 1)>>,
      <<D(1, 2), D(7, 10), D(1, 1)>> }

\* ray_color(r, world, depth) is called, and the loop is started beside it
LoopCall(depth) ==
    /\ recur.pc = "idle"
    /\ recur' = [pc |-> "descend", depth |-> depth, top |-> depth, pending |-> <<>>,
                 retval |-> DBlack, bounces |-> 0, ended |-> "none"]
    /\ iter' = LoopStart(depth)
    /\ UNCHANGED <<objects, materials, call, rcVars, rng, renderVars>>

\* depth <= 0
LoopExhausted ==
    /\ recur.pc = "descend"
    /\ recur.depth <= 0
    /\ recur' = [recur EXCEPT !.pc = "ascend", !.retval = DBlack, !.ended = "depth"]
    /\ iter' = LoopBlack(iter)
    /\ UNCHANGED <<objects, materials, call, rcVars, rng, renderVars>>

\* world.hit is true and scatter is true: the recursive call is made, the
\* attenuation waiting for its result
LoopScatter(attenuation) ==
    /\ recur.pc = "descend"
    /\ recur.depth > 0
    /\ recur' = [recur EXCEPT !.pending = Append(@, attenuation),
                              !.depth = @ - 1,
                              !.bounces = @ + 1]
    /\ iter' = LoopBounce(iter, attenuation)
    /\ UNCHANGED <<objects, materials, call, rcVars, rng, renderVars>>

\* world.hit is true and scatter is false
LoopAbsorb ==
    /\ recur.pc = "descend"
    /\ recur.depth > 0
    /\ recur' = [recur EXCEPT !.pc = "ascend", !.retval = DBlack, !.ended = "absorbed"]
    /\ iter' = LoopBlack(iter)
    /\ UNCHANGED <<objects, materials, call, rcVars, rng, renderVars>>

\* world.hit is false: the sky
LoopSky(sky) ==
    /\ recur.pc = "descend"
    /\ recur.depth > 0
    /\ recur' = [recur EXCEPT !.pc = "ascend", !.retval = sky, !.ended = "miss"]
    /\ iter' = LoopMiss(iter, sky)
    /\ UNCHANGED <<objects, materials, call, rcVars, rng, renderVars>>

\* an invocation returns: its caller multiplies by its attenuation, or the
\* outermost invocation has returned
LoopReturn ==
    /\ recur.pc = "ascend"
    /\ recur' = IF recur.pending = <<>>
                THEN [recur EXCEPT !.pc = "done"]
                ELSE [recur EXCEPT
                        !.retval = ray_color_scaled(recur.pending[Len(recur.pending)], @),
                        !.pending = SubSeq(@, 1, Len(@) - 1),
                        !.depth = @ + 1]
    /\ UNCHANGED <<objects, materials, call, rcVars, rng, renderVars, iter>>

InitLoop ==
    /\ objects = <<>>
    /\ materials = <<>>
    /\ call = [op |-> "none"]
    /\ RayColorIdle
    /\ LaterIdle

NextLoop ==
    \/ \E depth \in 0..MaxDepth : LoopCall(depth)
    \/ LoopExhausted
    \/ \E attenuation \in Attenuations : LoopScatter(attenuation)
    \/ LoopAbsorb
    \/ \E sky \in Skies : LoopSky(sky)
    \/ LoopReturn

SpecLoop == InitLoop /\ [][NextLoop]_vars

---------------------------------------------------------------------------
(* Claims about the recursion and the loop.                                *)

\* the double next to x away from zero, x not zero
DSucc(x) ==
    LET m == PlusOne(x.m, 1)
    IN  IF m[5] = 2 THEN [s |-> x.s, m |-> <<0, 0, 0, 0, 1>>, e |-> x.e + 1]
        ELSE [s |-> x.s, m |-> m, e |-> x.e]

\* y is x or one of the n doubles next to x away from zero
RECURSIVE UpTo(_, _, _)
UpTo(x, y, n) == x = y \/ (n > 0 /\ ~IsZero(x) /\ UpTo(DSucc(x), y, n - 1))

\* x and y are at most n doubles apart
DNear(x, y, n) == UpTo(x, y, n) \/ UpTo(y, x, n)

BothDone == recur.pc = "done" /\ iter.pc = "done"

\* C14 as claimed: the recursion and the loop return the same colour.
C14_SameColour == BothDone => recur.retval = iter.result

\* C14, amended: the recursion and the loop end the same way; they return the
\* same colour when the path ends in (0,0,0) or has scattered at most once,
\* and otherwise colours whose channels are at most 2 * bounces doubles
\* apart: the recursion multiplies from the last attenuation back, the loop
\* from the first one on, and each product is rounded.
C14_SameUpToRounding ==
    BothDone =>
        /\ recur.ended \in {"depth", "absorbed"} =>
              recur.retval = DBlack /\ iter.result = DBlack
        /\ recur.ended = "depth" <=> recur.bounces = recur.top
        /\ recur.bounces <= 1 => recur.retval = iter.result
        /\ \A ch \in 1..3 : DNear(recur.retval[ch], iter.result[ch], 2 * recur.bounces)

\* a path of two bounces into the sky on which the two colours differ
C14_Witness ==
    /\ BothDone
    /\ recur.ended = "miss"
    /\ recur.bounces = 2
    /\ recur.retval # iter.result

============================================================================
